---- MODULE Spec2Model ----
(***************************************************************************)
(* SPECTRE protocol: the MockMarket constant-product AMM of                *)
(* cpi/pnp_interface.rs (TradeParams, TradeResult, MockMarket), and the    *)
(* vault program of lib.rs and state/mod.rs (fund_agent, execute_trade,    *)
(* open_position, close_position on the SpectreVault, StrategyConfig and   *)
(* Position accounts).                                                     *)
(*                                                                         *)
(* Number representation.  The program computes with u64 and u128 values   *)
(* (reserves of 10^9, amounts up to 10^12, products up to 10^24 and more), *)
(* far beyond the 32-bit integers of the model checker.  Every u64 / u128  *)
(* value of the program is therefore a sequence of decimal limbs, least    *)
(* significant first, three digits per limb, with no leading zero limb:    *)
(*      0 = << >>     999_999 = <<999, 999>>    1_000_000 = <<0, 0, 1>>    *)
(* which is the digit grouping the Rust source writes its literals in.     *)
(* Add, Sub, Mul, Div below are exact arithmetic on that representation.   *)
(* The observations and thresholds of the strategy (price, trend,          *)
(* volatility, at most 10^6) are plain integers.                           *)
(*                                                                         *)
(* Specifications.  Spec: one MockMarket under execute_trade, resolve and  *)
(* calculate_payout.  SpecVault: one vault under the four instructions.    *)
(* SpecPositionLimit: one vault filled to MAX_POSITIONS.                   *)
(***************************************************************************)
EXTENDS Integers, Sequences, FiniteSets, TLC

\* ------------------------------------------------------------------------
\* Exact natural-number arithmetic on limb sequences
\* ------------------------------------------------------------------------

Base == 10 * 10 * 10

Limb(a, i) == IF i >= 1 /\ i <= Len(a) THEN a[i] ELSE 0

RECURSIVE Norm(_)
Norm(a) ==
    IF a = << >> THEN << >>
    ELSE IF a[Len(a)] = 0 THEN Norm(SubSeq(a, 1, Len(a) - 1))
    ELSE a

IsZero(a) == a = << >>

RECURSIVE CmpFrom(_, _, _)
CmpFrom(a, b, i) ==
    IF i = 0 THEN 0
    ELSE IF a[i] < b[i] THEN -1
    ELSE IF a[i] > b[i] THEN 1
    ELSE CmpFrom(a, b, i - 1)

Cmp(a, b) ==
    IF Len(a) < Len(b) THEN -1
    ELSE IF Len(a) > Len(b) THEN 1
    ELSE CmpFrom(a, b, Len(a))

Lt(a, b) == Cmp(a, b) < 0
Le(a, b) == Cmp(a, b) <= 0
Gt(a, b) == Cmp(a, b) > 0
Ge(a, b) == Cmp(a, b) >= 0

RECURSIVE AddFrom(_, _, _, _)
AddFrom(a, b, i, c) ==
    IF i > Len(a) /\ i > Len(b)
    THEN (IF c = 0 THEN << >> ELSE <<c>>)
    ELSE LET s == Limb(a, i) + Limb(b, i) + c
         IN  <<s % Base>> \o AddFrom(a, b, i + 1, s \div Base)

Add(a, b) == AddFrom(a, b, 1, 0)

\* a - b for a >= b
RECURSIVE SubFrom(_, _, _, _)
SubFrom(a, b, i, c) ==
    IF i > Len(a) THEN << >>
    ELSE LET d == a[i] - Limb(b, i) - c
         IN  IF d < 0 THEN <<d + Base>> \o SubFrom(a, b, i + 1, 1)
             ELSE <<d>> \o SubFrom(a, b, i + 1, 0)

Sub(a, b) == Norm(SubFrom(a, b, 1, 0))

\* a * m for one limb m
RECURSIVE MulLimbFrom(_, _, _, _)
MulLimbFrom(a, m, i, c) ==
    IF i > Len(a) THEN (IF c = 0 THEN << >> ELSE <<c>>)
    ELSE LET p == a[i] * m + c
         IN  <<p % Base>> \o MulLimbFrom(a, m, i + 1, p \div Base)

MulLimb(a, m) == IF m = 0 THEN << >> ELSE MulLimbFrom(a, m, 1, 0)

\* a * Base
Shift(a) == IF a = << >> THEN << >> ELSE <<0>> \o a

RECURSIVE MulFrom(_, _, _)
MulFrom(a, b, j) ==
    IF j > Len(b) THEN << >>
    ELSE Add(MulLimb(a, b[j]), Shift(MulFrom(a, b, j + 1)))

Mul(a, b) == IF a = << >> \/ b = << >> THEN << >> ELSE MulFrom(a, b, 1)

\* the largest limb d in lo..hi with b * d <= r (b * lo <= r is given)
RECURSIVE DigitIn(_, _, _, _)
DigitIn(r, b, lo, hi) ==
    IF lo >= hi THEN lo
    ELSE LET mid == (lo + hi + 1) \div 2
         IN  IF Le(MulLimb(b, mid), r)
             THEN DigitIn(r, b, mid, hi)
             ELSE DigitIn(r, b, lo, mid - 1)

\* floor(r / b) for 0 <= r < b * Base, b > 0: bracketed by the leading limbs
Digit(r, b) ==
    IF Lt(r, b) THEN 0
    ELSE LET n == Len(b)
         IN  IF n = 1
             THEN (Limb(r, 2) * Base + Limb(r, 1)) \div b[1]
             ELSE LET bt == b[n] * Base + b[n - 1]
                      rt == (Limb(r, n + 1) * Base + Limb(r, n)) * Base
                            + Limb(r, n - 1)
                      lo == rt \div (bt + 1)
                      up == (rt + 1) \div bt
                      hi == IF up > Base - 1 THEN Base - 1 ELSE up
                  IN  DigitIn(r, b, lo, hi)

\* long division of a[1..i] by b: [q, r], most significant limb first
RECURSIVE DivFrom(_, _, _)
DivFrom(a, b, i) ==
    IF i > Len(a) THEN [q |-> << >>, r |-> << >>]
    ELSE LET up  == DivFrom(a, b, i + 1)
             cur == Norm(<<a[i]>> \o up.r)
             d   == Digit(cur, b)
         IN  [q |-> <<d>> \o up.q, r |-> Sub(cur, MulLimb(b, d))]

\* floor(a / b), b > 0
Div(a, b) == Norm(DivFrom(a, b, 1).q)
Mod(a, b) == DivFrom(a, b, 1).r

\* ------------------------------------------------------------------------
\* u64 / u128 operations of the program
\* ------------------------------------------------------------------------

\* u64::MAX = 18_446_744_073_709_551_615 and 2^64
U64_MAX == <<615, 551, 709, 73, 744, 446, 18>>
TWO_64 == Add(U64_MAX, <<1>>)

\* i64::MAX = 9_223_372_036_854_775_807
I64_MAX == <<807, 775, 854, 36, 372, 223, 9>>

\* `x as u64` of a u128 value: the low 64 bits
as_u64(v) == IF Le(v, U64_MAX) THEN v ELSE Mod(v, TWO_64)

\* a + b, a * b, a - b on u64 as a build without overflow checks computes
\* them (a build with overflow checks aborts the call instead; see
\* ArithmeticInRange: no reachable call of the model overflows)
u64_add(a, b) == as_u64(Add(a, b))
u64_mul(a, b) == as_u64(Mul(a, b))
u64_sub(a, b) == IF Ge(a, b) THEN Sub(a, b) ELSE Sub(TWO_64, Sub(b, a))

saturating_add(a, b) == IF Gt(Add(a, b), U64_MAX) THEN U64_MAX ELSE Add(a, b)
saturating_sub(a, b) == IF Ge(a, b) THEN Sub(a, b) ELSE << >>

\* ------------------------------------------------------------------------
\* Trading constants
\* ------------------------------------------------------------------------

\* 1_000_000
MIN_TRADE_AMOUNT == <<0, 0, 1>>
\* 1_000_000_000_000
MAX_TRADE_AMOUNT == <<0, 0, 0, 0, 1>>
\* 1_000_000
PRICE_SCALE == <<0, 0, 1>>
\* 500
MAX_SLIPPAGE_BPS == <<500>>
\* the literal 10000 of validate and calculate_shares_out
BPS_DENOMINATOR == <<0, 10>>

TradeSide == {"Yes", "No"}
OrderType == {"Market", "Limit"}

opposite(side) == IF side = "Yes" THEN "No" ELSE "Yes"

\* ------------------------------------------------------------------------
\* TradeParams
\* ------------------------------------------------------------------------

market_order(side, amount) ==
    [side |-> side, amount |-> amount, order_type |-> "Market",
     limit_price |-> << >>, max_slippage_bps |-> MAX_SLIPPAGE_BPS]

limit_order(side, amount, limit_price) ==
    [side |-> side, amount |-> amount, order_type |-> "Limit",
     limit_price |-> limit_price, max_slippage_bps |-> << >>]

validate_amount_inclusive(p) ==
    IF Le(p.amount, MIN_TRADE_AMOUNT) \/ Ge(p.amount, MAX_TRADE_AMOUNT)
    THEN FALSE
    ELSE IF p.order_type = "Limit"
            /\ (IsZero(p.limit_price) \/ Gt(p.limit_price, PRICE_SCALE))
    THEN FALSE
    ELSE IF p.order_type = "Market" /\ Gt(p.max_slippage_bps, BPS_DENOMINATOR)
    THEN FALSE
    ELSE TRUE

validate(p) ==
    IF Lt(p.amount, MIN_TRADE_AMOUNT) \/ Gt(p.amount, MAX_TRADE_AMOUNT)
    THEN FALSE
    ELSE IF p.order_type = "Limit"
            /\ (IsZero(p.limit_price) \/ Gt(p.limit_price, PRICE_SCALE))
    THEN FALSE
    ELSE IF p.order_type = "Market" /\ Gt(p.max_slippage_bps, BPS_DENOMINATOR)
    THEN FALSE
    ELSE TRUE

\* ------------------------------------------------------------------------
\* TradeResult
\* ------------------------------------------------------------------------

TradeResult_success(amount_traded, shares_received, execution_price, fees_paid) ==
    [success |-> TRUE, amount_traded |-> amount_traded,
     shares_received |-> shares_received,
     execution_price |-> execution_price, fees_paid |-> fees_paid]

TradeResult_failed ==
    [success |-> FALSE, amount_traded |-> << >>, shares_received |-> << >>,
     execution_price |-> << >>, fees_paid |-> << >>]

\* ------------------------------------------------------------------------
\* MockMarket
\* ------------------------------------------------------------------------

MockMarket_default ==
    [yes_reserve |-> <<0, 0, 0, 1>>, no_reserve |-> <<0, 0, 0, 1>>,
     sol_liquidity |-> <<0, 0, 0, 2>>, total_volume |-> << >>,
     end_time |-> I64_MAX, is_resolved |-> FALSE, winning_side |-> "Yes",
     fee_bps |-> <<30>>]

MockMarket_new(initial_liquidity, end_time) ==
    LET half_liquidity == Div(initial_liquidity, <<2>>)
    IN  [yes_reserve |-> half_liquidity, no_reserve |-> half_liquidity,
         sol_liquidity |-> initial_liquidity, total_volume |-> << >>,
         end_time |-> end_time, is_resolved |-> FALSE, winning_side |-> "Yes",
         fee_bps |-> <<30>>]

yes_price(m) ==
    IF IsZero(u64_add(m.yes_reserve, m.no_reserve))
    THEN Div(PRICE_SCALE, <<2>>)
    ELSE as_u64(Div(Mul(m.no_reserve, PRICE_SCALE),
                    u64_add(m.yes_reserve, m.no_reserve)))

no_price_own_division(m) ==
    IF IsZero(u64_add(m.yes_reserve, m.no_reserve))
    THEN Div(PRICE_SCALE, <<2>>)
    ELSE as_u64(Div(Mul(m.yes_reserve, PRICE_SCALE),
                    u64_add(m.yes_reserve, m.no_reserve)))

no_price(m) == u64_sub(PRICE_SCALE, yes_price(m))

get_price(m, side) == IF side = "Yes" THEN yes_price(m) ELSE no_price(m)

trade_fee_percent(m, amount_in) ==
    Div(u64_mul(amount_in, m.fee_bps), <<100>>)

\* let fee = amount_in * self.fee_bps / 10000;
trade_fee(m, amount_in) ==
    Div(u64_mul(amount_in, m.fee_bps), BPS_DENOMINATOR)

calculate_shares_out(m, side, amount_in) ==
    LET fee == trade_fee(m, amount_in)
        amount_after_fee == saturating_sub(amount_in, fee)
        reserve_in == IF side = "Yes" THEN m.no_reserve ELSE m.yes_reserve
        reserve_out == IF side = "Yes" THEN m.yes_reserve ELSE m.no_reserve
        k == Mul(reserve_in, reserve_out)
        new_reserve_in == saturating_add(reserve_in, amount_after_fee)
    IN  IF IsZero(new_reserve_in)
        THEN [shares_out |-> << >>, fee |-> fee]
        ELSE LET new_reserve_out == as_u64(Div(k, new_reserve_in))
             IN  [shares_out |-> saturating_sub(reserve_out, new_reserve_out),
                  fee |-> fee]

\* (params.amount as u128 * PRICE_SCALE as u128 / shares_out as u128) as u64
execution_price(amount, shares_out) ==
    as_u64(Div(Mul(amount, PRICE_SCALE), shares_out))

limit_never_exceeded(p, price) == FALSE

\* the limit-order check of execute_trade
limit_exceeded(p, price) ==
    p.order_type = "Limit" /\ Gt(price, p.limit_price)

update_reserves_swapped(m, p, shares_out, fees) ==
    LET amount_after_fee == saturating_sub(p.amount, fees)
        r == IF p.side = "No"
             THEN [m EXCEPT !.no_reserve = saturating_add(@, amount_after_fee),
                            !.yes_reserve = saturating_sub(@, shares_out)]
             ELSE [m EXCEPT !.yes_reserve = saturating_add(@, amount_after_fee),
                            !.no_reserve = saturating_sub(@, shares_out)]
    IN  [r EXCEPT !.total_volume = saturating_add(@, p.amount)]

update_reserves_volume_after_fee(m, p, shares_out, fees) ==
    LET amount_after_fee == saturating_sub(p.amount, fees)
        r == IF p.side = "Yes"
             THEN [m EXCEPT !.no_reserve = saturating_add(@, amount_after_fee),
                            !.yes_reserve = saturating_sub(@, shares_out)]
             ELSE [m EXCEPT !.yes_reserve = saturating_add(@, amount_after_fee),
                            !.no_reserve = saturating_sub(@, shares_out)]
    IN  [r EXCEPT !.total_volume = saturating_add(@, amount_after_fee)]

\* update_reserves paying the whole amount, fee included, into the reserve
update_reserves_fee_included(m, p, shares_out, fees) ==
    LET r == IF p.side = "Yes"
             THEN [m EXCEPT !.no_reserve = saturating_add(@, p.amount),
                            !.yes_reserve = saturating_sub(@, shares_out)]
             ELSE [m EXCEPT !.yes_reserve = saturating_add(@, p.amount),
                            !.no_reserve = saturating_sub(@, shares_out)]
    IN  [r EXCEPT !.total_volume = saturating_add(@, p.amount)]

\* "Update reserves" and "Update volume" of execute_trade
update_reserves(m, p, shares_out, fees) ==
    LET amount_after_fee == saturating_sub(p.amount, fees)
        r == IF p.side = "Yes"
             THEN [m EXCEPT !.no_reserve = saturating_add(@, amount_after_fee),
                            !.yes_reserve = saturating_sub(@, shares_out)]
             ELSE [m EXCEPT !.yes_reserve = saturating_add(@, amount_after_fee),
                            !.no_reserve = saturating_sub(@, shares_out)]
    IN  [r EXCEPT !.total_volume = saturating_add(@, p.amount)]

rejects_never(m) == FALSE

\* "Validate market is active" of execute_trade
rejects_resolved(m) == m.is_resolved

\* execute_trade: the market after the call and the TradeResult returned
execute_trade(m, p) ==
    IF rejects_resolved(m)
    THEN [market |-> m, result |-> TradeResult_failed]
    ELSE IF ~validate(p)
    THEN [market |-> m, result |-> TradeResult_failed]
    ELSE LET out == calculate_shares_out(m, p.side, p.amount)
         IN  IF IsZero(out.shares_out)
             THEN [market |-> m, result |-> TradeResult_failed]
             ELSE LET price == execution_price(p.amount, out.shares_out)
                  IN  IF limit_exceeded(p, price)
                      THEN [market |-> m, result |-> TradeResult_failed]
                      ELSE [market |-> update_reserves(m, p, out.shares_out, out.fee),
                            result |-> TradeResult_success(
                                p.amount, out.shares_out, price, out.fee)]

resolve(m, winning_side) ==
    [m EXCEPT !.is_resolved = TRUE, !.winning_side = winning_side]

calculate_payout_any_side(m, side, shares) ==
    IF ~m.is_resolved THEN << >> ELSE shares

calculate_payout(m, side, shares) ==
    IF ~m.is_resolved THEN << >>
    ELSE IF side = m.winning_side THEN shares
    ELSE << >>

\* ------------------------------------------------------------------------
\* Signed 64-bit values: a sign and a magnitude, zero is never negative
\* ------------------------------------------------------------------------

U32_MAX == <<295, 967, 294, 4>>

RECURSIVE Big(_)
Big(n) == IF n = 0 THEN << >> ELSE Norm(<<n % Base>> \o Big(n \div Base))

i64(neg, mag) == [neg |-> neg /\ ~IsZero(mag), mag |-> mag]

\* `x as i64` of a u64: values from 2^63 on wrap to negative
as_i64(x) ==
    IF Le(x, I64_MAX) THEN i64(FALSE, x) ELSE i64(TRUE, Sub(TWO_64, x))

\* the exact difference a - b of two signed values
signed_sub(a, b) ==
    IF a.neg # b.neg THEN i64(a.neg, Add(a.mag, b.mag))
    ELSE IF Ge(a.mag, b.mag) THEN i64(a.neg, Sub(a.mag, b.mag))
    ELSE i64(~a.neg, Sub(b.mag, a.mag))

i64_saturating_sub(a, b) ==
    LET d == signed_sub(a, b)
    IN  IF ~d.neg /\ Gt(d.mag, I64_MAX) THEN i64(FALSE, I64_MAX)
        ELSE IF d.neg /\ Gt(d.mag, Add(I64_MAX, <<1>>))
             THEN i64(TRUE, Add(I64_MAX, <<1>>))
        ELSE d

saturating_mul(a, b) == IF Gt(Mul(a, b), U64_MAX) THEN U64_MAX ELSE Mul(a, b)

u32_saturating_add(a, b) == IF Gt(Add(a, b), U32_MAX) THEN U32_MAX ELSE Add(a, b)

\* checked_add of two u64: the sum, or None on overflow
checked_add(a, b) ==
    IF Gt(Add(a, b), U64_MAX) THEN [some |-> FALSE]
    ELSE [some |-> TRUE, value |-> Add(a, b)]

\* ------------------------------------------------------------------------
\* state/mod.rs: the vault, the strategy configuration, positions
\* ------------------------------------------------------------------------

MAX_POSITIONS == <<100>>

MIN_DEPOSIT_AMOUNT == <<0, 0, 1>>
MAX_DEPOSIT_AMOUNT == <<0, 0, 0, 0, 1>>

\* what an instruction returns: Ok(value) or Err(error); an Err aborts the
\* transaction, so no account written by the handler is persisted
Ok(value) == [ok |-> TRUE, value |-> value]
Err(error) == [ok |-> FALSE, error |-> error]

\* the vault account written by initialize
initialize(unix_timestamp) ==
    [total_deposited |-> << >>,
     available_balance |-> << >>,
     active_positions |-> << >>,
     last_trade_slot |-> << >>,
     is_active |-> TRUE,
     is_delegated |-> FALSE,
     created_at |-> unix_timestamp,
     total_deposits_count |-> << >>,
     total_withdrawals_count |-> << >>,
     total_volume |-> << >>]

calculate_position_size_tenth(v, is_strong_signal) ==
    LET base_size == Div(v.available_balance, <<10>>)
    IN  IF is_strong_signal THEN saturating_mul(base_size, <<2>>) ELSE base_size

calculate_position_size(v, is_strong_signal) ==
    LET base_size == Div(v.available_balance, <<20>>)
    IN  IF is_strong_signal THEN saturating_mul(base_size, <<2>>) ELSE base_size

\* ------------------------------------------------------------------------
\* strategy: the decision tree (run_inference and the signal predicates)
\* ------------------------------------------------------------------------

TradeSignal == {"StrongBuy", "Buy", "Hold", "Sell", "StrongSell"}

is_buy(signal) == signal \in {"StrongBuy", "Buy"}
is_sell(signal) == signal \in {"StrongSell", "Sell"}
is_strong(signal) == signal \in {"StrongBuy", "StrongSell"}

\* the u8 stored in config.last_signal
signal_code(signal) ==
    CASE signal = "StrongBuy" -> 1
      [] signal = "Buy" -> 2
      [] signal = "Hold" -> 3
      [] signal = "Sell" -> 4
      [] signal = "StrongSell" -> 5

StrategyParams_default ==
    [price_threshold_low |-> 400000, price_threshold_high |-> 600000,
     trend_threshold |-> 100000, volatility_cap |-> 200000]

StrategyParams_validate(params) ==
    params.price_threshold_low < params.price_threshold_high

abs(x) == IF x < 0 THEN -x ELSE x

run_inference(input, params) ==
    IF input.volatility > params.volatility_cap THEN "Hold"
    ELSE IF input.price <= params.price_threshold_low
         THEN IF abs(input.trend) > params.trend_threshold /\ input.trend > 0
              THEN "StrongBuy" ELSE "Buy"
    ELSE IF input.price >= params.price_threshold_high
         THEN IF abs(input.trend) > params.trend_threshold /\ input.trend < 0
              THEN "StrongSell" ELSE "Sell"
    ELSE "Hold"

\* the strategy configuration written by initialize_strategy
initialize_strategy(params, clock) ==
    [price_threshold_low |-> params.price_threshold_low,
     price_threshold_high |-> params.price_threshold_high,
     trend_threshold |-> params.trend_threshold,
     volatility_cap |-> params.volatility_cap,
     is_active |-> TRUE,
     updated_at |-> clock.unix_timestamp,
     last_signal |-> 0,
     last_signal_at |-> << >>,
     total_signals |-> << >>]

config_params(config) ==
    [price_threshold_low |-> config.price_threshold_low,
     price_threshold_high |-> config.price_threshold_high,
     trend_threshold |-> config.trend_threshold,
     volatility_cap |-> config.volatility_cap]

\* Option<StrategyParams>
None == [some |-> FALSE]
Some(params) == [some |-> TRUE, value |-> params]
unwrap_or_default(params) ==
    IF params.some THEN params.value ELSE StrategyParams_default

\* the data of a strategy_config account that was not created yet
StrategyConfig_zeroed ==
    [price_threshold_low |-> 0, price_threshold_high |-> 0,
     trend_threshold |-> 0, volatility_cap |-> 0, is_active |-> FALSE,
     updated_at |-> << >>, last_signal |-> 0, last_signal_at |-> << >>,
     total_signals |-> << >>]

\* initialize_strategy storing the parameters without validating them
initialize_strategy_ix_unvalidated(created, params, clock) ==
    IF "strategy_config" \in created THEN Err("AccountAlreadyInUse")
    ELSE Ok(initialize_strategy(unwrap_or_default(params), clock))

\* the initialize_strategy instruction: the account is created by `init`,
\* which fails when it exists; created is the set of the accounts that do
initialize_strategy_ix(created, params, clock) ==
    IF "strategy_config" \in created THEN Err("AccountAlreadyInUse")
    ELSE IF ~StrategyParams_validate(unwrap_or_default(params))
    THEN Err("InvalidStrategyParams")
    ELSE Ok(initialize_strategy(unwrap_or_default(params), clock))

\* set_strategy_params storing the parameters without validating them
set_strategy_params_unvalidated(config, params, clock) ==
    Ok([config EXCEPT !.price_threshold_low = params.price_threshold_low,
                      !.price_threshold_high = params.price_threshold_high,
                      !.trend_threshold = params.trend_threshold,
                      !.volatility_cap = params.volatility_cap,
                      !.updated_at = clock.unix_timestamp])

\* the set_strategy_params instruction
set_strategy_params(config, params, clock) ==
    IF ~StrategyParams_validate(params) THEN Err("InvalidStrategyParams")
    ELSE Ok([config EXCEPT !.price_threshold_low = params.price_threshold_low,
                           !.price_threshold_high = params.price_threshold_high,
                           !.trend_threshold = params.trend_threshold,
                           !.volatility_cap = params.volatility_cap,
                           !.updated_at = clock.unix_timestamp])

\* ------------------------------------------------------------------------
\* lib.rs: the instructions.  Each takes the accounts it is given and the
\* clock, and returns Ok with the accounts as written, or Err.
\* ------------------------------------------------------------------------

\* utils/privacy_bridge.rs verify_deposit_proof: the error, or "none".
\* A commitment or nullifier hash of 0 stands for the all-zero byte string.
verify_deposit_proof(proof) ==
    IF Lt(proof.amount, MIN_DEPOSIT_AMOUNT) THEN "DepositTooLow"
    ELSE IF Gt(proof.amount, MAX_DEPOSIT_AMOUNT) THEN "DepositTooHigh"
    ELSE IF proof.commitment = 0 \/ proof.nullifier_hash = 0 THEN "InvalidCommitment"
    ELSE "none"

fund_agent_saturating(v, ds, proof, clock) ==
    IF proof.commitment \in DOMAIN ds THEN Err("AccountAlreadyInUse")
    ELSE IF ~v.is_active THEN Err("VaultInactive")
    ELSE IF verify_deposit_proof(proof) # "none" THEN Err(verify_deposit_proof(proof))
    ELSE LET user_deposit == [commitment |-> proof.commitment,
                              nullifier_hash |-> proof.nullifier_hash,
                              amount |-> proof.amount,
                              delegated |-> FALSE,
                              created_at |-> clock.unix_timestamp,
                              is_active |-> TRUE]
         IN  Ok([vault |-> [v EXCEPT
                    !.total_deposited = saturating_add(@, proof.amount),
                    !.available_balance = saturating_add(@, proof.amount),
                    !.total_deposits_count = saturating_add(@, <<1>>)],
                 deposits |-> (proof.commitment :> user_deposit) @@ ds])

fund_agent(v, ds, proof, clock) ==
    IF proof.commitment \in DOMAIN ds THEN Err("AccountAlreadyInUse")
    ELSE IF ~v.is_active THEN Err("VaultInactive")
    ELSE IF verify_deposit_proof(proof) # "none" THEN Err(verify_deposit_proof(proof))
    ELSE LET total == checked_add(v.total_deposited, proof.amount)
             avail == checked_add(v.available_balance, proof.amount)
             count == checked_add(v.total_deposits_count, <<1>>)
             user_deposit == [commitment |-> proof.commitment,
                              nullifier_hash |-> proof.nullifier_hash,
                              amount |-> proof.amount,
                              delegated |-> FALSE,
                              created_at |-> clock.unix_timestamp,
                              is_active |-> TRUE]
         IN  IF ~total.some \/ ~avail.some \/ ~count.some THEN Err("MathOverflow")
             ELSE Ok([vault |-> [v EXCEPT !.total_deposited = total.value,
                                          !.available_balance = avail.value,
                                          !.total_deposits_count = count.value],
                      deposits |-> (proof.commitment :> user_deposit) @@ ds])

\* execute_trade, step 1: the vault checks
vault_checks_active_only(v) ==
    IF ~v.is_active THEN "VaultInactive" ELSE "none"

vault_checks(v) ==
    IF ~v.is_active THEN "VaultInactive"
    ELSE IF ~Gt(v.available_balance, << >>) THEN "InsufficientVaultBalance"
    ELSE "none"

\* execute_trade, step 3: the strategy stats
update_strategy_stats_no_count(config, signal, clock) ==
    [config EXCEPT !.last_signal = signal_code(signal),
                   !.last_signal_at = clock.unix_timestamp]

update_strategy_stats(config, signal, clock) ==
    [config EXCEPT !.last_signal = signal_code(signal),
                   !.last_signal_at = clock.unix_timestamp,
                   !.total_signals = saturating_add(config.total_signals, <<1>>)]

\* execute_trade, step 9: the vault after the market's result
apply_trade_result_unguarded(v, result, clock) ==
    [v EXCEPT !.available_balance = saturating_sub(v.available_balance,
                                                   result.amount_traded),
              !.total_volume = saturating_add(v.total_volume, result.amount_traded),
              !.last_trade_slot = clock.slot]

apply_trade_result_shares(v, result, clock) ==
    IF result.success
    THEN [v EXCEPT !.available_balance = saturating_sub(v.available_balance,
                                                        result.shares_received),
                   !.total_volume = saturating_add(v.total_volume,
                                                   result.amount_traded),
                   !.last_trade_slot = clock.slot]
    ELSE v

apply_trade_result(v, result, clock) ==
    IF result.success
    THEN [v EXCEPT !.available_balance = saturating_sub(v.available_balance,
                                                        result.amount_traded),
                   !.total_volume = saturating_add(v.total_volume,
                                                   result.amount_traded),
                   !.last_trade_slot = clock.slot]
    ELSE v

\* execute_trade without the early return on a signal that is no order
execute_trade_ix_trades_on_hold(v, config, market_input, clock) ==
    IF ~v.is_active THEN Err("VaultInactive")
    ELSE IF ~config.is_active THEN Err("StrategyNotActive")
    ELSE IF vault_checks(v) # "none" THEN Err(vault_checks(v))
    ELSE
    LET signal == run_inference(market_input, config_params(config))
        config1 == update_strategy_stats(config, signal, clock)
        position_size == calculate_position_size(v, is_strong(signal))
        side == IF is_buy(signal) THEN "Yes" ELSE "No"
        trade_params == market_order(side, position_size)
        result == execute_trade(MockMarket_default, trade_params).result
    IN  IF ~Ge(position_size, MIN_TRADE_AMOUNT)
        THEN Err("InsufficientVaultBalance")
        ELSE Ok([vault |-> apply_trade_result(v, result, clock),
                 config |-> config1, result |-> result, signal |-> signal])

\* the execute_trade instruction (the ExecuteTrade account constraints, then
\* the handler); the market is a fresh MockMarket::default() on every call
execute_trade_ix(v, config, market_input, clock) ==
    IF ~v.is_active THEN Err("VaultInactive")
    ELSE IF ~config.is_active THEN Err("StrategyNotActive")
    ELSE IF vault_checks(v) # "none" THEN Err(vault_checks(v))
    ELSE
    LET signal == run_inference(market_input, config_params(config))
        config1 == update_strategy_stats(config, signal, clock)
        should_trade == is_buy(signal) \/ is_sell(signal)
        position_size == calculate_position_size(v, is_strong(signal))
        side == IF is_buy(signal) THEN "Yes" ELSE "No"
        trade_params == market_order(side, position_size)
        result == execute_trade(MockMarket_default, trade_params).result
    IN  IF ~should_trade
        THEN Ok([vault |-> v, config |-> config1, result |-> TradeResult_failed,
                 signal |-> signal])
        ELSE IF ~Ge(position_size, MIN_TRADE_AMOUNT)
        THEN Err("InsufficientVaultBalance")
        ELSE Ok([vault |-> apply_trade_result(v, result, clock),
                 config |-> config1, result |-> result, signal |-> signal])

\* generate_trade_signal running the inference on the default thresholds
generate_trade_signal_default_params(v, config, input, clock) ==
    IF ~v.is_active THEN Err("VaultInactive")
    ELSE IF ~config.is_active THEN Err("StrategyNotActive")
    ELSE LET signal == run_inference(input, StrategyParams_default)
         IN  Ok([config |-> update_strategy_stats(config, signal, clock),
                 signal |-> signal])

\* the generate_trade_signal instruction (the GenerateTradeSignal account
\* constraints, then the handler)
generate_trade_signal(v, config, input, clock) ==
    IF ~v.is_active THEN Err("VaultInactive")
    ELSE IF ~config.is_active THEN Err("StrategyNotActive")
    ELSE LET signal == run_inference(input, config_params(config))
         IN  Ok([config |-> update_strategy_stats(config, signal, clock),
                 signal |-> signal])

\* the OpenPosition account constraints on the vault
open_position_constraints_no_limit(v) ==
    IF ~v.is_active THEN "VaultInactive" ELSE "none"

open_position_constraints(v) ==
    IF ~v.is_active THEN "VaultInactive"
    ELSE IF ~Lt(v.active_positions, MAX_POSITIONS) THEN "MaxPositionsReached"
    ELSE "none"

\* open_position: the validation of its arguments
open_position_validate_no_price(v, shares, entry_price, invested_amount) ==
    IF ~Gt(shares, << >>) THEN "InvalidTradeAmount"
    ELSE IF ~Gt(invested_amount, << >>) THEN "InvalidTradeAmount"
    ELSE IF ~Ge(v.available_balance, invested_amount) THEN "InsufficientVaultBalance"
    ELSE "none"

\* open_position without the check of the balance
open_position_validate_no_balance(v, shares, entry_price, invested_amount) ==
    IF ~Gt(shares, << >>) THEN "InvalidTradeAmount"
    ELSE IF ~Gt(invested_amount, << >>) THEN "InvalidTradeAmount"
    ELSE IF ~Gt(entry_price, << >>) THEN "InvalidPrice"
    ELSE "none"

open_position_validate(v, shares, entry_price, invested_amount) ==
    IF ~Gt(shares, << >>) THEN "InvalidTradeAmount"
    ELSE IF ~Gt(invested_amount, << >>) THEN "InvalidTradeAmount"
    ELSE IF ~Gt(entry_price, << >>) THEN "InvalidPrice"
    ELSE IF ~Ge(v.available_balance, invested_amount) THEN "InsufficientVaultBalance"
    ELSE "none"

\* open_position: the vault after the position is written
open_position_vault_no_volume(v, invested_amount, clock) ==
    [v EXCEPT !.available_balance = saturating_sub(v.available_balance,
                                                   invested_amount),
              !.active_positions = u32_saturating_add(v.active_positions, <<1>>),
              !.last_trade_slot = clock.slot]

open_position_vault(v, invested_amount, clock) ==
    [v EXCEPT !.available_balance = saturating_sub(v.available_balance,
                                                   invested_amount),
              !.active_positions = u32_saturating_add(v.active_positions, <<1>>),
              !.total_volume = saturating_add(v.total_volume, invested_amount),
              !.last_trade_slot = clock.slot]

\* open_position creating the position account whether or not it exists
open_position_init_if_needed(v, ps, market_id, side, shares, entry_price, invested_amount, clock) ==
    IF open_position_constraints(v) # "none"
    THEN Err(open_position_constraints(v))
    ELSE IF open_position_validate(v, shares, entry_price, invested_amount) # "none"
    THEN Err(open_position_validate(v, shares, entry_price, invested_amount))
    ELSE LET position == [market_id |-> market_id,
                          side |-> side,
                          shares |-> shares,
                          entry_price |-> entry_price,
                          invested_amount |-> invested_amount,
                          status |-> "Open",
                          opened_at |-> clock.unix_timestamp,
                          closed_at |-> << >>,
                          exit_price |-> << >>,
                          realized_pnl |-> i64(FALSE, << >>)]
         IN  Ok([vault |-> open_position_vault(v, invested_amount, clock),
                 positions |-> (market_id :> position) @@ ps])

\* the open_position instruction; ps maps the market ids that have a
\* position account (its address is derived from the vault and the market)
open_position(v, ps, market_id, side, shares, entry_price, invested_amount, clock) ==
    IF market_id \in DOMAIN ps THEN Err("AccountAlreadyInUse")
    ELSE IF open_position_constraints(v) # "none"
    THEN Err(open_position_constraints(v))
    ELSE IF open_position_validate(v, shares, entry_price, invested_amount) # "none"
    THEN Err(open_position_validate(v, shares, entry_price, invested_amount))
    ELSE LET position == [market_id |-> market_id,
                          side |-> side,
                          shares |-> shares,
                          entry_price |-> entry_price,
                          invested_amount |-> invested_amount,
                          status |-> "Open",
                          opened_at |-> clock.unix_timestamp,
                          closed_at |-> << >>,
                          exit_price |-> << >>,
                          realized_pnl |-> i64(FALSE, << >>)]
         IN  Ok([vault |-> open_position_vault(v, invested_amount, clock),
                 positions |-> (market_id :> position) @@ ps])

\* close_position: shares * exit_price / PRICE_SCALE in u128, cast to u64
exit_value(position, exit_price) ==
    as_u64(Div(Mul(position.shares, exit_price), PRICE_SCALE))

\* close_position: the vault after the position is closed
close_position_vault_keep_count(v, value, clock) ==
    [v EXCEPT !.available_balance = saturating_add(v.available_balance, value),
              !.last_trade_slot = clock.slot]

close_position_vault(v, value, clock) ==
    [v EXCEPT !.available_balance = saturating_add(v.available_balance, value),
              !.active_positions = saturating_sub(v.active_positions, <<1>>),
              !.last_trade_slot = clock.slot]

\* close_position without the check of the position's status
close_position_any_status(v, ps, market_id, exit_price, clock) ==
    IF market_id \notin DOMAIN ps THEN Err("AccountNotInitialized")
    ELSE IF ~Gt(exit_price, << >>) THEN Err("InvalidPrice")
    ELSE LET position == ps[market_id]
             value == exit_value(position, exit_price)
             realized_pnl == i64_saturating_sub(as_i64(value),
                                                as_i64(position.invested_amount))
             closed == [position EXCEPT !.status = "Closed",
                                        !.closed_at = clock.unix_timestamp,
                                        !.exit_price = exit_price,
                                        !.realized_pnl = realized_pnl]
         IN  Ok([vault |-> close_position_vault(v, value, clock),
                 positions |-> [ps EXCEPT ![market_id] = closed],
                 realized_pnl |-> realized_pnl])

\* the close_position instruction
close_position(v, ps, market_id, exit_price, clock) ==
    IF market_id \notin DOMAIN ps THEN Err("AccountNotInitialized")
    ELSE IF ps[market_id].status # "Open" THEN Err("PositionAlreadyClosed")
    ELSE IF ~Gt(exit_price, << >>) THEN Err("InvalidPrice")
    ELSE LET position == ps[market_id]
             value == exit_value(position, exit_price)
             realized_pnl == i64_saturating_sub(as_i64(value),
                                                as_i64(position.invested_amount))
             closed == [position EXCEPT !.status = "Closed",
                                        !.closed_at = clock.unix_timestamp,
                                        !.exit_price = exit_price,
                                        !.realized_pnl = realized_pnl]
         IN  Ok([vault |-> close_position_vault(v, value, clock),
                 positions |-> [ps EXCEPT ![market_id] = closed],
                 realized_pnl |-> realized_pnl])

\* Position::calculate_unrealized_pnl: 0 for a position that is not Open;
\* the u128 product of two u64 never saturates
calculate_unrealized_pnl(position, current_price) ==
    IF position.status # "Open" THEN i64(FALSE, << >>)
    ELSE LET current_value ==
                 as_u64(Div(Mul(position.shares, current_price), PRICE_SCALE))
         IN  i64_saturating_sub(as_i64(current_value),
                                as_i64(position.invested_amount))

\* the get_position_pnl instruction: it reads the position and writes nothing
get_position_pnl(ps, market_id, current_price) ==
    IF market_id \notin DOMAIN ps THEN Err("AccountNotInitialized")
    ELSE IF ps[market_id].status # "Open" THEN Ok(ps[market_id].realized_pnl)
    ELSE Ok(calculate_unrealized_pnl(ps[market_id], current_price))

\* ------------------------------------------------------------------------
\* utils/compliance.rs and the withdrawal instructions
\* ------------------------------------------------------------------------

MAX_RISK_SCORE == 30
MAX_ATTESTATION_AGE_SLOTS == <<50>>

\* checked_sub of two u64: the difference, or None when it is negative
checked_sub(a, b) ==
    IF Lt(a, b) THEN [some |-> FALSE]
    ELSE [some |-> TRUE, value |-> Sub(a, b)]

ComplianceResult_pass(risk_score) ==
    [passed |-> TRUE, risk_score |-> risk_score, error |-> "none"]

ComplianceResult_fail(risk_score, error) ==
    [passed |-> FALSE, risk_score |-> risk_score, error |-> error]

\* Phase 1: every signature is accepted
verify_oracle_signature(attestation) == TRUE

\* verify_compliance with the risk check ahead of the freshness check and
\* the freshness limit one slot short
verify_compliance_risk_first(attestation, expected_address, current_slot) ==
    IF attestation.address # expected_address
    THEN ComplianceResult_fail(attestation.risk_score, "AddressMismatch")
    ELSE IF attestation.risk_score > MAX_RISK_SCORE
    THEN ComplianceResult_fail(attestation.risk_score, "HighRiskAddress")
    ELSE IF Ge(saturating_sub(current_slot, attestation.attestation_slot),
               MAX_ATTESTATION_AGE_SLOTS)
    THEN ComplianceResult_fail(attestation.risk_score, "StaleAttestation")
    ELSE IF attestation.has_malicious_connections
    THEN ComplianceResult_fail(attestation.risk_score, "MaliciousConnections")
    ELSE ComplianceResult_pass(attestation.risk_score)

verify_compliance(attestation, expected_address, current_slot) ==
    IF attestation.address # expected_address
    THEN ComplianceResult_fail(attestation.risk_score, "AddressMismatch")
    ELSE IF Gt(saturating_sub(current_slot, attestation.attestation_slot),
               MAX_ATTESTATION_AGE_SLOTS)
    THEN ComplianceResult_fail(attestation.risk_score, "StaleAttestation")
    ELSE IF attestation.has_malicious_connections
    THEN ComplianceResult_fail(attestation.risk_score, "MaliciousConnections")
    ELSE IF attestation.risk_score > MAX_RISK_SCORE
    THEN ComplianceResult_fail(attestation.risk_score, "HighRiskAddress")
    ELSE IF ~verify_oracle_signature(attestation)
    THEN ComplianceResult_fail(attestation.risk_score, "InvalidSignature")
    ELSE ComplianceResult_pass(attestation.risk_score)

\* the request_withdrawal instruction; ws maps the commitments of the
\* deposits that have a withdrawal request account (its address is derived
\* from the vault, the requester and the deposit)
request_withdrawal(v, ds, ws, commitment, amount, recipient, clock) ==
    IF commitment \notin DOMAIN ds THEN Err("AccountNotInitialized")
    ELSE IF commitment \in DOMAIN ws THEN Err("AccountAlreadyInUse")
    ELSE IF ~v.is_active THEN Err("VaultInactive")
    ELSE IF ~ds[commitment].is_active THEN Err("DepositNotActive")
    ELSE IF ~Ge(ds[commitment].amount, amount) THEN Err("InsufficientBalance")
    ELSE IF ~Gt(amount, << >>) THEN Err("InvalidAmount")
    ELSE LET withdrawal == [deposit |-> commitment,
                            amount |-> amount,
                            recipient |-> recipient,
                            status |-> "Pending",
                            risk_score |-> 0,
                            created_at |-> clock.unix_timestamp,
                            updated_at |-> clock.unix_timestamp,
                            compliance_verified_slot |-> << >>]
         IN  Ok([withdrawals |-> (commitment :> withdrawal) @@ ws])

\* complete_withdrawal's transfer and updates, leaving user_deposit.amount
\* as it was
complete_withdrawal_funds_keep_deposit(v, ds, lam, withdrawal, recipient) ==
    LET amount == withdrawal.amount
        user_deposit == ds[withdrawal.deposit]
        vault_lamports == checked_sub(lam["vault"], amount)
        recipient_lamports == checked_add(lam[recipient], amount)
        available_balance == checked_sub(v.available_balance, amount)
        count == checked_add(v.total_withdrawals_count, <<1>>)
    IN  IF ~Ge(user_deposit.amount, amount) THEN Err("InsufficientBalance")
        ELSE IF ~Ge(v.available_balance, amount)
        THEN Err("InsufficientVaultBalance")
        ELSE IF \/ ~vault_lamports.some \/ ~recipient_lamports.some
                \/ ~available_balance.some \/ ~count.some
        THEN Err("MathOverflow")
        ELSE Ok([vault |-> [v EXCEPT
                               !.available_balance = available_balance.value,
                               !.total_withdrawals_count = count.value],
                 deposits |-> ds,
                 withdrawal |-> [withdrawal EXCEPT !.status = "Completed"],
                 lamports |-> [lam EXCEPT
                                  !["vault"] = vault_lamports.value,
                                  ![recipient] = recipient_lamports.value]])

\* complete_withdrawal, steps 3 to 5: the balance checks, the transfer of
\* the lamports and the updates of the deposit, the vault and the request
complete_withdrawal_funds(v, ds, lam, withdrawal, recipient) ==
    LET amount == withdrawal.amount
        user_deposit == ds[withdrawal.deposit]
        vault_lamports == checked_sub(lam["vault"], amount)
        recipient_lamports == checked_add(lam[recipient], amount)
        deposit_amount == checked_sub(user_deposit.amount, amount)
        available_balance == checked_sub(v.available_balance, amount)
        count == checked_add(v.total_withdrawals_count, <<1>>)
    IN  IF ~Ge(user_deposit.amount, amount) THEN Err("InsufficientBalance")
        ELSE IF ~Ge(v.available_balance, amount)
        THEN Err("InsufficientVaultBalance")
        ELSE IF \/ ~vault_lamports.some \/ ~recipient_lamports.some
                \/ ~deposit_amount.some \/ ~available_balance.some
                \/ ~count.some
        THEN Err("MathOverflow")
        ELSE Ok([vault |-> [v EXCEPT
                               !.available_balance = available_balance.value,
                               !.total_withdrawals_count = count.value],
                 deposits |-> [ds EXCEPT ![withdrawal.deposit] =
                     [user_deposit EXCEPT
                         !.amount = deposit_amount.value,
                         !.is_active = IF IsZero(deposit_amount.value)
                                       THEN FALSE ELSE @]],
                 withdrawal |-> [withdrawal EXCEPT !.status = "Completed"],
                 lamports |-> [lam EXCEPT
                                  !["vault"] = vault_lamports.value,
                                  ![recipient] = recipient_lamports.value]])

\* complete_withdrawal paying out whatever the attestation says
complete_withdrawal_unverified(v, ds, ws, lam, commitment, recipient, attestation, clock) ==
    IF commitment \notin DOMAIN ds \/ commitment \notin DOMAIN ws
    THEN Err("AccountNotInitialized")
    ELSE IF recipient # ws[commitment].recipient THEN Err("RecipientMismatch")
    ELSE IF ws[commitment].status \notin {"Pending", "Approved"}
    THEN Err("InvalidWithdrawalStatus")
    ELSE LET verified == [ws[commitment] EXCEPT
                             !.risk_score = attestation.risk_score,
                             !.compliance_verified_slot = clock.slot,
                             !.updated_at = clock.unix_timestamp,
                             !.status = "Approved"]
             paid == complete_withdrawal_funds(v, ds, lam, verified, recipient)
         IN  IF ~paid.ok THEN paid
             ELSE Ok([vault |-> paid.value.vault,
                      deposits |-> paid.value.deposits,
                      withdrawals |-> [ws EXCEPT ![commitment] =
                                          paid.value.withdrawal],
                      lamports |-> paid.value.lamports])

\* complete_withdrawal without the check of the request's status
complete_withdrawal_any_status(v, ds, ws, lam, commitment, recipient, attestation, clock) ==
    IF commitment \notin DOMAIN ds \/ commitment \notin DOMAIN ws
    THEN Err("AccountNotInitialized")
    ELSE IF recipient # ws[commitment].recipient THEN Err("RecipientMismatch")
    ELSE LET compliance_result ==
                 verify_compliance(attestation, recipient, clock.slot)
             verified == [ws[commitment] EXCEPT
                             !.risk_score = attestation.risk_score,
                             !.compliance_verified_slot = clock.slot,
                             !.updated_at = clock.unix_timestamp,
                             !.status = "Approved"]
             paid == complete_withdrawal_funds(v, ds, lam, verified, recipient)
         IN  IF ~compliance_result.passed THEN Err("ComplianceCheckFailed")
             ELSE IF ~paid.ok THEN paid
             ELSE Ok([vault |-> paid.value.vault,
                      deposits |-> paid.value.deposits,
                      withdrawals |-> [ws EXCEPT ![commitment] =
                                          paid.value.withdrawal],
                      lamports |-> paid.value.lamports])

\* the complete_withdrawal instruction (the CompleteWithdrawal account
\* constraints, then the handler); the writes made before an Err are lost
\* with the transaction
complete_withdrawal(v, ds, ws, lam, commitment, recipient, attestation, clock) ==
    IF commitment \notin DOMAIN ds \/ commitment \notin DOMAIN ws
    THEN Err("AccountNotInitialized")
    ELSE IF recipient # ws[commitment].recipient THEN Err("RecipientMismatch")
    ELSE IF ws[commitment].status \notin {"Pending", "Approved"}
    THEN Err("InvalidWithdrawalStatus")
    ELSE LET compliance_result ==
                 verify_compliance(attestation, recipient, clock.slot)
             verified == [ws[commitment] EXCEPT
                             !.risk_score = attestation.risk_score,
                             !.compliance_verified_slot = clock.slot,
                             !.updated_at = clock.unix_timestamp,
                             !.status = "Approved"]
             paid == complete_withdrawal_funds(v, ds, lam, verified, recipient)
         IN  IF ~compliance_result.passed THEN Err("ComplianceCheckFailed")
             ELSE IF ~paid.ok THEN paid
             ELSE Ok([vault |-> paid.value.vault,
                      deposits |-> paid.value.deposits,
                      withdrawals |-> [ws EXCEPT ![commitment] =
                                          paid.value.withdrawal],
                      lamports |-> paid.value.lamports])

\* the verify_withdrawal_compliance instruction: the request must be
\* Pending; a failed check returns Err, so its Rejected status is lost with
\* the transaction
verify_withdrawal_compliance(ws, commitment, attestation, clock) ==
    IF commitment \notin DOMAIN ws THEN Err("AccountNotInitialized")
    ELSE IF ws[commitment].status # "Pending"
    THEN Err("InvalidWithdrawalStatus")
    ELSE LET compliance_result ==
                 verify_compliance(attestation, ws[commitment].recipient,
                                   clock.slot)
         IN  IF ~compliance_result.passed THEN Err("ComplianceCheckFailed")
             ELSE Ok([withdrawals |-> [ws EXCEPT ![commitment] =
                         [@ EXCEPT !.risk_score = attestation.risk_score,
                                   !.compliance_verified_slot = clock.slot,
                                   !.updated_at = clock.unix_timestamp,
                                   !.status = "Approved"]]])

\* ------------------------------------------------------------------------
\* Inputs of the model
\* ------------------------------------------------------------------------

\* the number of calls made on one market
MaxCalls == 3

\* 999_999, 1_000_000, 100_000_000, 1_000_000_000_000, 1_000_000_000_001
TRADE_AMOUNTS ==
    {<<999, 999>>, MIN_TRADE_AMOUNT, <<0, 0, 100>>, MAX_TRADE_AMOUNT,
     <<1, 0, 0, 0, 1>>}

\* 0, 100_000, 1_000_000, 1_000_001
LIMIT_PRICES == {<< >>, <<0, 100>>, PRICE_SCALE, <<1, 0, 1>>}

\* the orders submitted: the two constructors over the amounts and limit
\* prices, and struct literals at the slippage bounds
ORDERS ==
    {market_order(s, a) : s \in TradeSide, a \in TRADE_AMOUNTS}
    \cup {limit_order(s, a, l) : s \in TradeSide,
                                 a \in {MIN_TRADE_AMOUNT, <<0, 0, 100>>},
                                 l \in LIMIT_PRICES}
    \cup {limit_order("Yes", a, <<0, 100>>) : a \in {<<999, 999>>, <<1, 0, 0, 0, 1>>}}
    \cup {[market_order("Yes", MIN_TRADE_AMOUNT) EXCEPT !.max_slippage_bps = b] :
            b \in {BPS_DENOMINATOR, <<1, 10>>}}
    \cup {[limit_order("No", MIN_TRADE_AMOUNT, <<0, 100>>)
            EXCEPT !.max_slippage_bps = <<1, 10>>]}

\* shares asked of calculate_payout: 0, 100, u64::MAX
PAYOUT_SHARES == {<< >>, <<100>>, U64_MAX}

\* markets constructed: default() and new(2, 1_000_000)
INITIAL_MARKETS == {MockMarket_default, MockMarket_new(<<2>>, <<0, 0, 1>>)}

\* ------------------------------------------------------------------------
\* State
\* ------------------------------------------------------------------------

VARIABLES
    market,      \* the MockMarket
    last,        \* the last call: its arguments, the market before it, its result
    traded,      \* history: the sum of the amounts of the successful trades
    calls,       \* the number of calls made
    vault,       \* the SpectreVault account
    config,      \* the StrategyConfig account
    deposits,    \* the UserDeposit accounts, by commitment
    positions,   \* the Position accounts, by market id
    slot,        \* the clock
    initialized, \* the singleton accounts created so far
    withdrawals, \* the WithdrawalRequest accounts, by the deposit's commitment
    lamports     \* the lamports held by the vault account and the recipients

vars == <<market, last, traded, calls, vault, config, deposits, positions, slot,
          initialized, withdrawals, lamports>>

accounts == <<vault, config, deposits, positions, slot, initialized,
              withdrawals, lamports>>

\* ------------------------------------------------------------------------
\* The vault program: its accounts after initialize and
\* initialize_strategy(None), and one action per instruction.  The clock
\* advances by one slot with every transaction that lands; a transaction
\* that returns Err leaves every account as it was.
\* ------------------------------------------------------------------------

\* the number of signals one strategy configuration records
MaxSignals == 2

\* the wall-clock second the transactions fall in: 1_700_000_000
UNIX_TIMESTAMP == <<0, 0, 700, 1>>

\* the addresses withdrawals are paid to
RECIPIENTS == {"recipient", "other"}

\* the lamports the vault account is created with: its rent-exempt minimum
VAULT_RENT == <<0, 0, 2>>

\* Clock::get(): slots advance, the transactions share one second
Clock == [slot |-> slot, unix_timestamp |-> UNIX_TIMESTAMP]

Accounts == [vault |-> vault, config |-> config, deposits |-> deposits,
             positions |-> positions, withdrawals |-> withdrawals,
             lamports |-> lamports]

\* deposits: 1_000_000 and 1_000_000_000 lamports, and 999_999 (too low)
PROOFS ==
    {[commitment |-> 1, nullifier_hash |-> 1, amount |-> a] :
        a \in {<<999, 999>>, MIN_DEPOSIT_AMOUNT, <<0, 0, 0, 1>>}}

\* observations: StrongBuy, Buy, Hold and Sell under the default thresholds
MARKET_INPUTS ==
    {[price |-> 300000, trend |-> 150000, volatility |-> 50000],
     [price |-> 300000, trend |-> 50000, volatility |-> 50000],
     [price |-> 500000, trend |-> 0, volatility |-> 50000],
     [price |-> 700000, trend |-> 50000, volatility |-> 50000]}

\* u64::MAX - 40_000_000
NEARLY_ALL == Sub(U64_MAX, <<0, 0, 40>>)

OpenArgs(market_id, side, shares, entry_price, invested_amount) ==
    [market_id |-> market_id, side |-> side, shares |-> shares,
     entry_price |-> entry_price, invested_amount |-> invested_amount]

\* calls of open_position.  On market 1: 100_000_000 YES shares at 0.5 for
\* 50_000_000 lamports; u64::MAX YES shares at the smallest price for
\* 50_000_000; no shares.  On market 2: 100_000_000 NO shares at 0.5 for
\* 50_000_000; 100_000_000 NO shares for nearly u64::MAX lamports; a zero
\* entry price; nothing invested.
OPEN_CALLS ==
    {OpenArgs(1, "Yes", <<0, 0, 100>>, <<0, 500>>, <<0, 0, 50>>),
     OpenArgs(1, "Yes", U64_MAX, <<1>>, <<0, 0, 50>>),
     OpenArgs(1, "Yes", << >>, <<0, 500>>, <<0, 0, 50>>),
     OpenArgs(2, "No", <<0, 0, 100>>, <<0, 500>>, <<0, 0, 50>>),
     OpenArgs(2, "No", <<0, 0, 100>>, <<1>>, NEARLY_ALL),
     OpenArgs(2, "No", <<0, 0, 100>>, << >>, <<0, 0, 50>>),
     OpenArgs(2, "No", <<0, 0, 100>>, <<0, 500>>, << >>)}

\* calls of close_position: market 1 at the exit prices 0, 0.3 and 1.0,
\* market 2 at 1.0
CLOSE_CALLS ==
    {[market_id |-> 1, exit_price |-> x] : x \in {<< >>, <<0, 300>>, PRICE_SCALE}}
    \cup {[market_id |-> 2, exit_price |-> PRICE_SCALE]}

VaultInit ==
    /\ vault = initialize(UNIX_TIMESTAMP)
    /\ config = initialize_strategy(StrategyParams_default,
                                    [unix_timestamp |-> UNIX_TIMESTAMP])
    /\ deposits = [c \in {} |-> << >>]
    /\ positions = [m \in {} |-> << >>]
    /\ slot = <<1>>
    /\ initialized = {"vault", "strategy_config"}
    /\ withdrawals = [c \in {} |-> << >>]
    /\ lamports = [a \in RECIPIENTS \cup {"vault"} |->
                      IF a = "vault" THEN VAULT_RENT ELSE << >>]

Init ==
    /\ market \in INITIAL_MARKETS
    /\ last = [op |-> "new"]
    /\ traded = << >>
    /\ calls = 0
    /\ VaultInit

ExecuteTrade(p) ==
    /\ calls < MaxCalls
    /\ \E out \in {execute_trade(market, p)} :
           /\ market' = out.market
           /\ last' = [op |-> "execute_trade", params |-> p, pre |-> market,
                       result |-> out.result]
           /\ traded' = IF out.result.success THEN Add(traded, p.amount)
                        ELSE traded
    /\ calls' = calls + 1
    /\ UNCHANGED accounts

Resolve(w) ==
    /\ calls < MaxCalls
    /\ market' = resolve(market, w)
    /\ last' = [op |-> "resolve", winning_side |-> w, pre |-> market]
    /\ calls' = calls + 1
    /\ UNCHANGED <<traded, accounts>>

CalculatePayout(side, shares) ==
    /\ calls < MaxCalls
    /\ last' = [op |-> "calculate_payout", side |-> side, shares |-> shares,
                pre |-> market,
                payout |-> calculate_payout(market, side, shares)]
    /\ calls' = calls + 1
    /\ UNCHANGED <<market, traded, accounts>>

Next ==
    \/ \E p \in ORDERS : ExecuteTrade(p)
    \/ \E w \in TradeSide : Resolve(w)
    \/ \E s \in TradeSide, n \in PAYOUT_SHARES : CalculatePayout(s, n)

Spec == Init /\ [][Next]_vars

InitVault ==
    /\ market = MockMarket_default
    /\ last = [op |-> "initialize"]
    /\ traded = << >>
    /\ calls = 0
    /\ VaultInit

Landed(out) == slot' = IF out.ok THEN Add(slot, <<1>>) ELSE slot

FundAgent(proof) ==
    \E out \in {fund_agent(vault, deposits, proof, Clock)} :
        /\ last' = [op |-> "fund_agent", proof |-> proof, pre |-> Accounts,
                    slot |-> slot, ok |-> out.ok,
                    error |-> IF out.ok THEN "none" ELSE out.error]
        /\ vault' = IF out.ok THEN out.value.vault ELSE vault
        /\ deposits' = IF out.ok THEN out.value.deposits ELSE deposits
        /\ lamports' = IF out.ok
                       THEN [lamports EXCEPT !["vault"] = Add(@, proof.amount)]
                       ELSE lamports
        /\ Landed(out)
        /\ UNCHANGED <<market, traded, calls, config, positions, initialized,
                       withdrawals>>

ExecuteTradeIx(market_input) ==
    \E out \in {execute_trade_ix(vault, config, market_input, Clock)} :
        /\ last' = [op |-> "ix_execute_trade", market_input |-> market_input,
                    pre |-> Accounts, slot |-> slot, ok |-> out.ok,
                    error |-> IF out.ok THEN "none" ELSE out.error,
                    signal |-> IF out.ok THEN out.value.signal ELSE "none",
                    result |-> IF out.ok THEN out.value.result
                               ELSE TradeResult_failed]
        /\ vault' = IF out.ok THEN out.value.vault ELSE vault
        /\ config' = IF out.ok THEN out.value.config ELSE config
        /\ Landed(out)
        /\ UNCHANGED <<market, traded, calls, deposits, positions, initialized,
                       withdrawals, lamports>>

OpenPosition(a) ==
    \E out \in {open_position(vault, positions, a.market_id, a.side, a.shares,
                              a.entry_price, a.invested_amount, Clock)} :
        /\ last' = [op |-> "open_position", args |-> a, pre |-> Accounts,
                    slot |-> slot, ok |-> out.ok,
                    error |-> IF out.ok THEN "none" ELSE out.error]
        /\ vault' = IF out.ok THEN out.value.vault ELSE vault
        /\ positions' = IF out.ok THEN out.value.positions ELSE positions
        /\ Landed(out)
        /\ UNCHANGED <<market, traded, calls, config, deposits, initialized,
                       withdrawals, lamports>>

ClosePosition(market_id, exit_price) ==
    \E out \in {close_position(vault, positions, market_id, exit_price, Clock)} :
        /\ last' = [op |-> "close_position", market_id |-> market_id,
                    exit_price |-> exit_price, pre |-> Accounts, slot |-> slot,
                    ok |-> out.ok,
                    error |-> IF out.ok THEN "none" ELSE out.error,
                    realized_pnl |-> IF out.ok THEN out.value.realized_pnl
                                     ELSE i64(FALSE, << >>)]
        /\ vault' = IF out.ok THEN out.value.vault ELSE vault
        /\ positions' = IF out.ok THEN out.value.positions ELSE positions
        /\ Landed(out)
        /\ UNCHANGED <<market, traded, calls, config, deposits, initialized,
                       withdrawals, lamports>>

NextVault ==
    \/ \E proof \in PROOFS : FundAgent(proof)
    \/ /\ Lt(config.total_signals, Big(MaxSignals))
       /\ \E i \in MARKET_INPUTS : ExecuteTradeIx(i)
    \/ \E a \in OPEN_CALLS : OpenPosition(a)
    \/ \E c \in CLOSE_CALLS : ClosePosition(c.market_id, c.exit_price)

SpecVault == InitVault /\ [][NextVault]_vars

\* ------------------------------------------------------------------------
\* The vault program driven to its position limit: one deposit of
\* 1_000_000 lamports, positions of one share for one lamport opened on
\* market 1, 2, 3, ... (each call names a market that has no position yet),
\* the first two of them closed at any time, and signals evaluated.
\* ------------------------------------------------------------------------

LIMIT_PROOF == [commitment |-> 1, nullifier_hash |-> 1, amount |-> MIN_DEPOSIT_AMOUNT]

NextMarket == Cardinality(DOMAIN positions) + 1

\* StrongBuy and Hold
LIMIT_INPUTS ==
    {[price |-> 300000, trend |-> 150000, volatility |-> 50000],
     [price |-> 500000, trend |-> 0, volatility |-> 50000]}

NextLimit ==
    \/ FundAgent(LIMIT_PROOF)
    \/ OpenPosition(OpenArgs(NextMarket, "Yes", <<1>>, <<1>>, <<1>>))
    \/ \E m \in {1, 2} : ClosePosition(m, PRICE_SCALE)
    \/ /\ Lt(config.total_signals, Big(MaxSignals))
       /\ \E i \in LIMIT_INPUTS : ExecuteTradeIx(i)

SpecPositionLimit == InitVault /\ [][NextLimit]_vars

\* ------------------------------------------------------------------------
\* The PnL query: a funded vault whose positions are opened, queried at
\* several prices, closed at a loss or a gain, and queried again.
\* ------------------------------------------------------------------------

\* 100_000_000 YES shares at 0.5 on market 1, u64::MAX NO shares at the
\* smallest price on market 2, each for 50_000_000 lamports
PNL_OPEN_CALLS ==
    {OpenArgs(1, "Yes", <<0, 0, 100>>, <<0, 500>>, <<0, 0, 50>>),
     OpenArgs(2, "No", U64_MAX, <<1>>, <<0, 0, 50>>)}

\* market 1 closed at 0.3 or 0.7, market 2 at 0.3
PNL_CLOSE_CALLS ==
    {[market_id |-> 1, exit_price |-> <<0, 300>>],
     [market_id |-> 1, exit_price |-> <<0, 700>>],
     [market_id |-> 2, exit_price |-> <<0, 300>>]}

\* configuration updates are made up to this slot
MaxStrategySlot == 4

\* the number of observations one strategy configuration is evaluated on
MaxEvaluations == 1

\* a deposit of 1_000_000_000 lamports
PNL_PROOF == [commitment |-> 1, nullifier_hash |-> 1, amount |-> <<0, 0, 0, 1>>]

\* queries are made up to this slot
MaxQuerySlot == 7

\* the prices 0, 0.3, 0.7 and 1.0
PNL_PRICES == {<< >>, <<0, 300>>, <<0, 700>>, PRICE_SCALE}

GetPositionPnl(market_id, current_price) ==
    \E out \in {get_position_pnl(positions, market_id, current_price)} :
        /\ last' = [op |-> "get_position_pnl", market_id |-> market_id,
                    current_price |-> current_price, pre |-> Accounts,
                    slot |-> slot, ok |-> out.ok,
                    error |-> IF out.ok THEN "none" ELSE out.error,
                    pnl |-> IF out.ok THEN out.value ELSE i64(FALSE, << >>)]
        /\ Landed(out)
        /\ UNCHANGED <<market, traded, calls, vault, config, deposits, positions,
                       initialized, withdrawals, lamports>>

NextPnl ==
    \/ FundAgent(PNL_PROOF)
    \/ \E a \in PNL_OPEN_CALLS : OpenPosition(a)
    \/ \E c \in PNL_CLOSE_CALLS : ClosePosition(c.market_id, c.exit_price)
    \/ /\ Lt(slot, Big(MaxQuerySlot))
       /\ \E m \in {1, 2}, x \in PNL_PRICES : GetPositionPnl(m, x)

SpecPnl == InitVault /\ [][NextPnl]_vars

\* ------------------------------------------------------------------------
\* The strategy: a vault whose strategy configuration is created, updated
\* and evaluated on observations around its thresholds, and which trades on
\* some of them once funded.
\* ------------------------------------------------------------------------

StrategyParams_new(low, high, trend, cap) ==
    [price_threshold_low |-> low, price_threshold_high |-> high,
     trend_threshold |-> trend, volatility_cap |-> cap]

\* the default thresholds, a wider band with a lower cap, and two rejected
\* sets: equal and reversed price thresholds
STRATEGY_PARAMS ==
    {StrategyParams_default,
     StrategyParams_new(300000, 700000, 50000, 100000),
     StrategyParams_new(500000, 500000, 100000, 200000),
     StrategyParams_new(600000, 400000, 100000, 200000)}

\* observations at and around the thresholds of both accepted sets, and one
\* in the middle of the band
SIGNAL_INPUTS ==
    [price : {300000, 400000, 400001, 599999, 600000, 700000},
     trend : {-150000, -100000, 50000, 100000, 100001, 150000},
     volatility : {50000, 200000, 200001, 300000}]
    \cup {[price |-> 500000, trend |-> 0, volatility |-> 50000]}

\* observations traded on: strong and plain, calm and volatile
TRADE_INPUTS ==
    [price : {300000, 700000}, trend : {-150000, 150000},
     volatility : {50000, 300000}]
    \cup {[price |-> 500000, trend |-> 0, volatility |-> 50000]}

InitStrategy ==
    /\ market = MockMarket_default
    /\ last = [op |-> "initialize"]
    /\ traded = << >>
    /\ calls = 0
    /\ vault = initialize(UNIX_TIMESTAMP)
    /\ config = StrategyConfig_zeroed
    /\ deposits = [c \in {} |-> << >>]
    /\ positions = [m \in {} |-> << >>]
    /\ slot = <<1>>
    /\ initialized = {"vault"}
    /\ withdrawals = [c \in {} |-> << >>]
    /\ lamports = [a \in RECIPIENTS \cup {"vault"} |->
                      IF a = "vault" THEN VAULT_RENT ELSE << >>]

InitializeStrategy(params) ==
    \E out \in {initialize_strategy_ix(initialized, params, Clock)} :
        /\ last' = [op |-> "initialize_strategy", params |-> params,
                    pre |-> Accounts, created |-> initialized, slot |-> slot,
                    ok |-> out.ok,
                    error |-> IF out.ok THEN "none" ELSE out.error]
        /\ config' = IF out.ok THEN out.value ELSE config
        /\ initialized' = IF out.ok THEN initialized \cup {"strategy_config"}
                          ELSE initialized
        /\ Landed(out)
        /\ UNCHANGED <<market, traded, calls, vault, deposits, positions,
                       withdrawals, lamports>>

SetStrategyParams(params) ==
    /\ "strategy_config" \in initialized
    /\ \E out \in {set_strategy_params(config, params, Clock)} :
        /\ last' = [op |-> "set_strategy_params", params |-> params,
                    pre |-> Accounts, slot |-> slot, ok |-> out.ok,
                    error |-> IF out.ok THEN "none" ELSE out.error]
        /\ config' = IF out.ok THEN out.value ELSE config
        /\ Landed(out)
        /\ UNCHANGED <<market, traded, calls, vault, deposits, positions,
                       initialized, withdrawals, lamports>>

GenerateTradeSignal(input) ==
    /\ "strategy_config" \in initialized
    /\ \E out \in {generate_trade_signal(vault, config, input, Clock)} :
        /\ last' = [op |-> "generate_trade_signal", market_input |-> input,
                    pre |-> Accounts, slot |-> slot, ok |-> out.ok,
                    error |-> IF out.ok THEN "none" ELSE out.error,
                    signal |-> IF out.ok THEN out.value.signal ELSE "none"]
        /\ config' = IF out.ok THEN out.value.config ELSE config
        /\ Landed(out)
        /\ UNCHANGED <<market, traded, calls, vault, deposits, positions,
                       initialized, withdrawals, lamports>>

NextStrategy ==
    \/ \E params \in {None} \cup {Some(p) : p \in STRATEGY_PARAMS} :
          InitializeStrategy(params)
    \/ /\ Lt(slot, Big(MaxStrategySlot))
       /\ \E params \in STRATEGY_PARAMS : SetStrategyParams(params)
    \/ /\ Lt(config.total_signals, Big(MaxEvaluations))
       /\ \E input \in SIGNAL_INPUTS : GenerateTradeSignal(input)
    \/ FundAgent(PNL_PROOF)
    \/ /\ "strategy_config" \in initialized
       /\ Lt(config.total_signals, Big(MaxEvaluations))
       /\ \E input \in TRADE_INPUTS : ExecuteTradeIx(input)

SpecStrategy == InitStrategy /\ [][NextStrategy]_vars

\* ------------------------------------------------------------------------
\* Withdrawals: two deposits, one position that locks funds and whose close
\* fills the balance, and withdrawal requests that are verified and
\* completed with attestations of every kind.
\* ------------------------------------------------------------------------

\* deposits of 1_000_000_000 and of 1_000_000 lamports
WITHDRAWAL_PROOFS ==
    {[commitment |-> 1, nullifier_hash |-> 1, amount |-> <<0, 0, 0, 1>>],
     [commitment |-> 2, nullifier_hash |-> 2, amount |-> MIN_DEPOSIT_AMOUNT]}

\* requested amounts: 0, 1_000_000, 1_000_000_000 and 2_000_000_000
WITHDRAWAL_AMOUNTS == {<< >>, <<0, 0, 1>>, <<0, 0, 0, 1>>, <<0, 0, 0, 2>>}

RangeAttestation_new(address, risk_score, attestation_slot, has_malicious_connections) ==
    [address |-> address, risk_score |-> risk_score,
     attestation_slot |-> attestation_slot,
     has_malicious_connections |-> has_malicious_connections]

\* attestations: one for the recipient at the risk limit, made at slot
\* 100 and free of malicious connections; the four that differ from it in
\* one field (another address, a risk above the limit, malicious
\* connections, made at slot 52); and one that differs in all four.  Slot
\* 52 is 50 slots old at slot 102, the first slot a withdrawal can be
\* completed in, and older in every later one.
ATTESTATIONS ==
    {RangeAttestation_new("recipient", MAX_RISK_SCORE, <<100>>, FALSE),
     RangeAttestation_new("other", MAX_RISK_SCORE, <<100>>, FALSE),
     RangeAttestation_new("recipient", MAX_RISK_SCORE + 1, <<100>>, FALSE),
     RangeAttestation_new("recipient", MAX_RISK_SCORE, <<100>>, TRUE),
     RangeAttestation_new("recipient", MAX_RISK_SCORE, <<52>>, FALSE),
     RangeAttestation_new("other", MAX_RISK_SCORE + 1, <<52>>, TRUE)}

InitWithdrawal ==
    /\ market = MockMarket_default
    /\ last = [op |-> "initialize"]
    /\ traded = << >>
    /\ calls = 0
    /\ vault = initialize(UNIX_TIMESTAMP)
    /\ config = initialize_strategy(StrategyParams_default,
                                    [unix_timestamp |-> UNIX_TIMESTAMP])
    /\ deposits = [c \in {} |-> << >>]
    /\ positions = [m \in {} |-> << >>]
    /\ slot = <<100>>
    /\ initialized = {"vault", "strategy_config"}
    /\ withdrawals = [c \in {} |-> << >>]
    /\ lamports = [a \in RECIPIENTS \cup {"vault"} |->
                      IF a = "vault" THEN VAULT_RENT ELSE << >>]

RequestWithdrawal(commitment, amount, recipient) ==
    \E out \in {request_withdrawal(vault, deposits, withdrawals, commitment,
                                   amount, recipient, Clock)} :
        /\ last' = [op |-> "request_withdrawal", commitment |-> commitment,
                    amount |-> amount, recipient |-> recipient,
                    pre |-> Accounts, slot |-> slot, ok |-> out.ok,
                    error |-> IF out.ok THEN "none" ELSE out.error]
        /\ withdrawals' = IF out.ok THEN out.value.withdrawals ELSE withdrawals
        /\ Landed(out)
        /\ UNCHANGED <<market, traded, calls, vault, config, deposits, positions,
                       initialized, lamports>>

CompleteWithdrawal(commitment, recipient, attestation) ==
    \E out \in {complete_withdrawal(vault, deposits, withdrawals, lamports,
                                    commitment, recipient, attestation, Clock)} :
        /\ last' = [op |-> "complete_withdrawal", commitment |-> commitment,
                    recipient |-> recipient, attestation |-> attestation,
                    pre |-> Accounts, slot |-> slot, ok |-> out.ok,
                    error |-> IF out.ok THEN "none" ELSE out.error]
        /\ vault' = IF out.ok THEN out.value.vault ELSE vault
        /\ deposits' = IF out.ok THEN out.value.deposits ELSE deposits
        /\ withdrawals' = IF out.ok THEN out.value.withdrawals ELSE withdrawals
        /\ lamports' = IF out.ok THEN out.value.lamports ELSE lamports
        /\ Landed(out)
        /\ UNCHANGED <<market, traded, calls, config, positions, initialized>>

VerifyWithdrawalCompliance(commitment, attestation) ==
    \E out \in {verify_withdrawal_compliance(withdrawals, commitment,
                                             attestation, Clock)} :
        /\ last' = [op |-> "verify_withdrawal_compliance",
                    commitment |-> commitment, attestation |-> attestation,
                    pre |-> Accounts, slot |-> slot, ok |-> out.ok,
                    error |-> IF out.ok THEN "none" ELSE out.error]
        /\ withdrawals' = IF out.ok THEN out.value.withdrawals ELSE withdrawals
        /\ Landed(out)
        /\ UNCHANGED <<market, traded, calls, vault, config, deposits, positions,
                       initialized, lamports>>

NextWithdrawal ==
    \/ \E proof \in WITHDRAWAL_PROOFS : FundAgent(proof)
    \/ OpenPosition(OpenArgs(1, "Yes", U64_MAX, <<1>>, <<0, 0, 50>>))
    \/ ClosePosition(1, PRICE_SCALE)
    \/ \E a \in WITHDRAWAL_AMOUNTS : RequestWithdrawal(1, a, "recipient")
    \/ RequestWithdrawal(2, MIN_DEPOSIT_AMOUNT, "recipient")
    \/ \E c \in {1, 2}, a \in ATTESTATIONS : CompleteWithdrawal(c, "recipient", a)
    \/ \E a \in ATTESTATIONS : CompleteWithdrawal(1, "other", a)
    \/ \E a \in ATTESTATIONS : VerifyWithdrawalCompliance(1, a)

SpecWithdrawal == InitWithdrawal /\ [][NextWithdrawal]_vars

\* ------------------------------------------------------------------------
\* Properties
\* ------------------------------------------------------------------------

IsTrade == last.op = "execute_trade"
Succeeded == IsTrade /\ last.result.success
BothPositive(m) == ~IsZero(m.yes_reserve) /\ ~IsZero(m.no_reserve)
reserve_of(m, side) == IF side = "Yes" THEN m.yes_reserve ELSE m.no_reserve

\* No plain u64 operation of a reachable call overflows: the sum of the
\* reserves in yes_price, and amount * fee_bps of a validated order.
ArithmeticInRange ==
    /\ Le(Add(market.yes_reserve, market.no_reserve), U64_MAX)
    /\ Le(yes_price(market), PRICE_SCALE)
    /\ \A p \in ORDERS : validate(p) => Le(Mul(p.amount, market.fee_bps), U64_MAX)

\* C1: whenever both reserves are positive, yes_price() + no_price() is
\* exactly PRICE_SCALE, in every state reached by execute_trade and resolve.
C1_PricesSumToScale ==
    BothPositive(market) =>
        Add(yes_price(market), no_price(market)) = PRICE_SCALE

\* a trade has moved the reserves off a ratio that divides evenly
C1_Witness ==
    /\ Succeeded
    /\ BothPositive(market)
    /\ ~IsZero(Mod(Mul(market.no_reserve, PRICE_SCALE),
                   Add(market.yes_reserve, market.no_reserve)))

\* C2: a successful market order on a market with both reserves positive
\* receives at most the pre-trade reserve of the bought side and leaves both
\* reserves strictly positive.
C2_ReservesStayPositive ==
    (Succeeded /\ last.params.order_type = "Market" /\ BothPositive(last.pre)) =>
        /\ Le(last.result.shares_received,
              reserve_of(last.pre, last.params.side))
        /\ BothPositive(market)

\* C3 as stated: a successful trade buying side X leaves get_price(X) strictly
\* greater and get_price(opposite(X)) strictly smaller than before.
C3_PriceMovesStrictly ==
    Succeeded =>
        /\ Gt(get_price(market, last.params.side),
              get_price(last.pre, last.params.side))
        /\ Lt(get_price(market, opposite(last.params.side)),
              get_price(last.pre, opposite(last.params.side)))

\* C3 (amended): a successful trade buying side X never lowers get_price(X)
\* and never raises get_price(opposite(X)); at the resolution of PRICE_SCALE
\* the prices may stay equal.
C3_PriceMovesMonotonically ==
    Succeeded =>
        /\ Ge(get_price(market, last.params.side),
              get_price(last.pre, last.params.side))
        /\ Le(get_price(market, opposite(last.params.side)),
              get_price(last.pre, opposite(last.params.side)))

\* buying YES for 100_000_000 on the default market raised the YES price
C3_Witness ==
    /\ Succeeded
    /\ last.pre = MockMarket_default
    /\ last.params = market_order("Yes", <<0, 0, 100>>)
    /\ Gt(yes_price(market), <<0, 500>>)
    /\ Lt(no_price(market), <<0, 500>>)

\* C4: execute_trade on a resolved market returns the failed TradeResult
\* (success false, every amount 0) and changes no field of the market.
C4_ResolvedMarketRejectsTrades ==
    (IsTrade /\ last.pre.is_resolved) =>
        /\ last.result = TradeResult_failed
        /\ market = last.pre

\* an order that validates, sent to a resolved market that still has reserves
C4_Witness ==
    /\ IsTrade
    /\ last.pre.is_resolved
    /\ validate(last.params)
    /\ BothPositive(last.pre)
    /\ last.result.success = FALSE

\* C5: once resolved, the market stays resolved with the same winning side,
\* whatever execute_trade and resolve calls follow.
C5_ResolutionWriteOnce ==
    [][market.is_resolved =>
        (market'.is_resolved /\ market'.winning_side = market.winning_side)]_vars

\* C6: on a resolved market calculate_payout(side, shares) is shares when
\* side is the winning side and 0 otherwise.
C6_PayoutIsBinary ==
    (last.op = "calculate_payout" /\ last.pre.is_resolved) =>
        last.payout = IF last.side = last.pre.winning_side
                      THEN last.shares ELSE << >>

\* the losing side of a resolved market is paid 0 for u64::MAX shares
C6_Witness ==
    /\ last.op = "calculate_payout"
    /\ last.pre.is_resolved
    /\ last.side # last.pre.winning_side
    /\ last.shares = U64_MAX
    /\ last.payout = << >>

\* the orders C7 lists as invalid
C7_Invalid(p) ==
    \/ Lt(p.amount, <<0, 0, 1>>)
    \/ Gt(p.amount, <<0, 0, 0, 0, 1>>)
    \/ p.order_type = "Limit" /\ (p.limit_price = << >> \/ Gt(p.limit_price, <<0, 0, 1>>))
    \/ p.order_type = "Market" /\ Gt(p.max_slippage_bps, <<0, 10>>)

\* C7: an order fails validate() exactly when its amount is below
\* MIN_TRADE_AMOUNT or above MAX_TRADE_AMOUNT, or it is a limit order with
\* limit_price 0 or above PRICE_SCALE, or a market order with
\* max_slippage_bps above 10000; execute_trade then fails and leaves the
\* market unchanged.
C7_ValidationExact ==
    IsTrade =>
        /\ validate(last.params) <=> ~C7_Invalid(last.params)
        /\ C7_Invalid(last.params) =>
              (last.result = TradeResult_failed /\ market = last.pre)

\* an order at the largest valid amount passed; one just above was rejected
\* on an unresolved market
C7_Witness ==
    /\ IsTrade
    /\ ~last.pre.is_resolved
    /\ BothPositive(last.pre)
    /\ last.params.amount = <<1, 0, 0, 0, 1>>
    /\ last.result = TradeResult_failed
    /\ market = last.pre

\* C8: a limit order succeeds only at an execution price
\* amount * PRICE_SCALE / shares_out of at most limit_price; above it
\* execute_trade fails and leaves the market unchanged.
C8_LimitPriceRespected ==
    (IsTrade /\ last.params.order_type = "Limit") =>
        /\ last.result.success =>
              /\ last.result.execution_price =
                    Div(Mul(last.params.amount, PRICE_SCALE),
                        last.result.shares_received)
              /\ Le(last.result.execution_price, last.params.limit_price)
        /\ LET out == calculate_shares_out(last.pre, last.params.side,
                                           last.params.amount)
           IN  (/\ ~last.pre.is_resolved
                /\ validate(last.params)
                /\ ~IsZero(out.shares_out)
                /\ Gt(Div(Mul(last.params.amount, PRICE_SCALE), out.shares_out),
                      last.params.limit_price))
               => (last.result = TradeResult_failed /\ market = last.pre)

\* the limit order of 100_000_000 at 100_000 on the default market: the
\* shares would cost more than the limit, and the order was rejected
C8_Witness ==
    /\ IsTrade
    /\ last.pre = MockMarket_default
    /\ last.params = limit_order("Yes", <<0, 0, 100>>, <<0, 100>>)
    /\ ~IsZero(calculate_shares_out(last.pre, "Yes", <<0, 0, 100>>).shares_out)
    /\ last.result = TradeResult_failed
    /\ market = last.pre

\* C9: a successful trade adds amount - fee to the paid-in reserve, takes
\* shares_received from the bought reserve and adds the full amount to
\* total_volume, so total_volume is the sum of the amounts successfully traded.
C9_ReserveAndVolumeDeltas ==
    /\ market.total_volume = traded
    /\ Succeeded =>
          LET bought == last.params.side
              paid == opposite(bought)
          IN  /\ Ge(last.params.amount, last.result.fees_paid)
              /\ reserve_of(market, paid) =
                    Add(reserve_of(last.pre, paid),
                        Sub(last.params.amount, last.result.fees_paid))
              /\ Ge(reserve_of(last.pre, bought), last.result.shares_received)
              /\ reserve_of(market, bought) =
                    Sub(reserve_of(last.pre, bought), last.result.shares_received)
              /\ market.total_volume =
                    Add(last.pre.total_volume, last.params.amount)

\* a second successful trade, on the opposite side of the first
C9_Witness ==
    /\ Succeeded
    /\ ~IsZero(last.pre.total_volume)
    /\ Gt(market.total_volume, last.params.amount)
    /\ BothPositive(market)

\* C10: a successful trade reports fees_paid = floor(amount * fee_bps / 10000)
\* (300_000 for 100_000_000 at 30 bps), and with fee_bps <= 10000 the fee and
\* the amount added to the paid-in reserve add up to the order amount.
C10_FeeIsFloorOfBps ==
    Succeeded =>
        LET paid == opposite(last.params.side)
        IN  /\ last.result.fees_paid =
                  Div(Mul(last.params.amount, last.pre.fee_bps), <<0, 10>>)
            /\ (last.params.amount = <<0, 0, 100>> /\ last.pre.fee_bps = <<30>>)
                  => last.result.fees_paid = <<0, 300>>
            /\ Le(last.pre.fee_bps, <<0, 10>>) =>
                  /\ Ge(reserve_of(market, paid), reserve_of(last.pre, paid))
                  /\ Add(last.result.fees_paid,
                         Sub(reserve_of(market, paid), reserve_of(last.pre, paid)))
                       = last.params.amount

\* the market order of 100_000_000 on the default market paid 300_000
C10_Witness ==
    /\ Succeeded
    /\ last.pre = MockMarket_default
    /\ last.params.amount = <<0, 0, 100>>
    /\ last.result.fees_paid = <<0, 300>>

\* ------------------------------------------------------------------------
\* Properties of the vault program
\* ------------------------------------------------------------------------

IsIxTrade == last.op = "ix_execute_trade"
IsOpenPosition == last.op = "open_position"
IsClosePosition == last.op = "close_position"

\* the vault fields the trading instructions write
trading_fields(v) ==
    <<v.available_balance, v.total_volume, v.active_positions, v.last_trade_slot>>

\* C11: calculate_position_size returns floor(available_balance / 20) for a
\* non-strong signal and exactly twice that for a strong signal, and the
\* size never exceeds available_balance.
C11_PositionSize ==
    \A base \in {calculate_position_size(vault, FALSE)},
       strong \in {calculate_position_size(vault, TRUE)} :
      \A twenty_times \in {Mul(base, <<20>>)} :
        /\ Le(twenty_times, vault.available_balance)
        /\ Lt(vault.available_balance, Add(twenty_times, <<20>>))
        /\ strong = Mul(base, <<2>>)
        /\ Le(base, vault.available_balance)
        /\ Le(strong, vault.available_balance)

\* the balance of the unit test, 1_000_000_000: a strong signal trades
\* 100_000_000, twice 50_000_000
C11_Witness ==
    /\ IsIxTrade /\ last.ok
    /\ last.signal = "StrongBuy"
    /\ last.pre.vault.available_balance = <<0, 0, 0, 1>>
    /\ last.result.amount_traded = <<0, 0, 100>>
    /\ calculate_position_size(last.pre.vault, FALSE) = <<0, 0, 50>>

\* the signal a call's observation gives under the configuration it found
signal_of(l) == run_inference(l.market_input, config_params(l.pre.config))

\* the order size a call computes from the vault it found
size_of(l) == calculate_position_size(l.pre.vault, is_strong(signal_of(l)))

PassesVaultChecks(l) ==
    l.pre.vault.is_active /\ Gt(l.pre.vault.available_balance, << >>)

Directional(l) == is_buy(signal_of(l)) \/ is_sell(signal_of(l))

\* C12 as stated: on an active vault with available_balance > 0, a buy- or
\* sell-class signal whose sized order is below MIN_TRADE_AMOUNT makes
\* execute_trade perform no trade without reporting an error, leave the vault
\* balances unchanged, and still increment total_signals and update
\* last_signal.
C12_SubMinimumIsNonAction ==
    (/\ IsIxTrade
     /\ PassesVaultChecks(last)
     /\ Directional(last)
     /\ Lt(size_of(last), MIN_TRADE_AMOUNT)) =>
        /\ last.ok
        /\ ~last.result.success
        /\ trading_fields(vault) = trading_fields(last.pre.vault)
        /\ config.total_signals = Add(last.pre.config.total_signals, <<1>>)
        /\ config.last_signal = signal_code(signal_of(last))

\* C13 as stated: every execute_trade call that passes the vault checks
\* increments config.total_signals by exactly 1 and sets last_signal, also on
\* Hold; on Hold it returns the default TradeResult and changes nothing in
\* the vault.
C13_EveryEvaluationCounted ==
    (IsIxTrade /\ PassesVaultChecks(last)) =>
        /\ config.total_signals = Add(last.pre.config.total_signals, <<1>>)
        /\ config.last_signal = signal_code(signal_of(last))
        /\ signal_of(last) = "Hold" =>
              /\ last.ok
              /\ last.result = TradeResult_failed
              /\ vault = last.pre.vault

TradeSucceeded == IsIxTrade /\ last.ok /\ last.result.success

\* a + b, stopping at u64::MAX
clamped_sum(a, b) == IF Le(Add(a, b), U64_MAX) THEN Add(a, b) ELSE U64_MAX

\* C14 as stated: when execute_trade's market execution succeeds,
\* available_balance decreases by exactly result.amount_traded, total_volume
\* increases by exactly result.amount_traded, and last_trade_slot is the
\* current slot.
C14_TradeMovesBalanceAndVolume ==
    TradeSucceeded =>
        /\ Le(last.result.amount_traded, last.pre.vault.available_balance)
        /\ Add(vault.available_balance, last.result.amount_traded)
              = last.pre.vault.available_balance
        /\ vault.total_volume
              = Add(last.pre.vault.total_volume, last.result.amount_traded)
        /\ vault.last_trade_slot = last.slot

\* C14 (amended): when execute_trade's market execution succeeds,
\* available_balance decreases by exactly result.amount_traded, total_volume
\* increases by result.amount_traded but stops at u64::MAX, and
\* last_trade_slot is the current slot.
C14_TradeMovesBalanceAndClampedVolume ==
    TradeSucceeded =>
        /\ Le(last.result.amount_traded, last.pre.vault.available_balance)
        /\ Add(vault.available_balance, last.result.amount_traded)
              = last.pre.vault.available_balance
        /\ vault.total_volume
              = clamped_sum(last.pre.vault.total_volume, last.result.amount_traded)
        /\ vault.last_trade_slot = last.slot

\* a second successful trade: 45_000_000 of the 900_000_000 left by the first
C14_Witness ==
    /\ TradeSucceeded
    /\ last.pre.vault.available_balance = <<0, 0, 900>>
    /\ last.result.amount_traded = <<0, 0, 45>>
    /\ vault.available_balance = <<0, 0, 855>>
    /\ vault.total_volume = <<0, 0, 145>>
    /\ vault.last_trade_slot # last.pre.vault.last_trade_slot

\* the call reached the market and the market refused the order
MarketExecutionFailed ==
    /\ IsIxTrade /\ last.ok
    /\ Directional(last)
    /\ Ge(size_of(last), MIN_TRADE_AMOUNT)
    /\ ~last.result.success

\* C15: when the market execution inside execute_trade fails,
\* available_balance, total_volume, active_positions and last_trade_slot are
\* all unchanged by the call.
C15_FailedExecutionLeavesVault ==
    MarketExecutionFailed =>
        /\ trading_fields(vault) = trading_fields(last.pre.vault)
        /\ last.result = TradeResult_failed

\* a vault holding u64::MAX sizes its order above MAX_TRADE_AMOUNT, which
\* the market refuses, after an earlier position event set last_trade_slot
C15_Witness ==
    /\ MarketExecutionFailed
    /\ Gt(size_of(last), MAX_TRADE_AMOUNT)
    /\ ~validate(market_order("Yes", size_of(last)))
    /\ ~IsZero(vault.last_trade_slot)
    /\ Lt(vault.last_trade_slot, last.slot)

\* C16: execute_trade on an inactive vault or on a vault with
\* available_balance = 0 is rejected with VaultInactive, respectively
\* InsufficientVaultBalance, before any inference runs: the vault and the
\* strategy config, total_signals and last_signal included, are unchanged.
C16_VaultChecksReject ==
    (IsIxTrade /\ ~PassesVaultChecks(last)) =>
        /\ ~last.ok
        /\ last.error = IF ~last.pre.vault.is_active THEN "VaultInactive"
                        ELSE "InsufficientVaultBalance"
        /\ vault = last.pre.vault
        /\ config = last.pre.config
        /\ config.total_signals = last.pre.config.total_signals
        /\ config.last_signal = last.pre.config.last_signal

\* an empty vault is asked to evaluate an observation that gives Hold, which
\* a funded vault records without error
C16_Witness ==
    /\ IsIxTrade
    /\ last.pre.vault.is_active
    /\ IsZero(last.pre.vault.available_balance)
    /\ signal_of(last) = "Hold"
    /\ last.error = "InsufficientVaultBalance"

Opened == IsOpenPosition /\ last.ok

\* the position a successful open_position created, and what it did to
\* available_balance and active_positions
OpenedPositionAndDebit ==
    /\ last.args.market_id \notin DOMAIN last.pre.positions
    /\ last.args.market_id \in DOMAIN positions
    /\ LET position == positions[last.args.market_id]
       IN  /\ position.status = "Open"
           /\ position.side = last.args.side
           /\ position.shares = last.args.shares
           /\ position.entry_price = last.args.entry_price
           /\ position.invested_amount = last.args.invested_amount
           /\ position.realized_pnl = i64(FALSE, << >>)
           /\ position.exit_price = << >>
    /\ Le(last.args.invested_amount, last.pre.vault.available_balance)
    /\ Add(vault.available_balance, last.args.invested_amount)
          = last.pre.vault.available_balance
    /\ vault.active_positions = Add(last.pre.vault.active_positions, <<1>>)

\* C17 as stated: a successful open_position creates a Position in status
\* Open with the given side, shares, entry_price and invested_amount
\* (realized_pnl = 0, exit_price = 0), decreases available_balance by exactly
\* invested_amount, increases active_positions by exactly 1 and increases
\* total_volume by invested_amount.
C17_OpenPositionEffects ==
    Opened =>
        /\ OpenedPositionAndDebit
        /\ vault.total_volume
              = Add(last.pre.vault.total_volume, last.args.invested_amount)

\* C17 (amended): as C17, except that total_volume increases by
\* invested_amount but stops at u64::MAX.
C17_OpenPositionEffectsClampedVolume ==
    Opened =>
        /\ OpenedPositionAndDebit
        /\ vault.total_volume
              = clamped_sum(last.pre.vault.total_volume, last.args.invested_amount)

\* 100_000_000 NO shares at 0.5 for 50_000_000 of a vault that already
\* holds a position
C17_Witness ==
    /\ Opened
    /\ last.args = OpenArgs(2, "No", <<0, 0, 100>>, <<0, 500>>, <<0, 0, 50>>)
    /\ last.pre.vault.available_balance = <<0, 0, 950>>
    /\ vault.available_balance = <<0, 0, 900>>
    /\ vault.active_positions = <<2>>
    /\ vault.total_volume = <<0, 0, 100>>

\* one of the four conditions open_position rejects
BadOpenArgs(l) ==
    \/ IsZero(l.args.shares)
    \/ IsZero(l.args.invested_amount)
    \/ IsZero(l.args.entry_price)
    \/ Lt(l.pre.vault.available_balance, l.args.invested_amount)

ActiveBelowLimit(v) == v.is_active /\ Lt(v.active_positions, MAX_POSITIONS)

OpenRejectedUnchanged ==
    /\ ~last.ok
    /\ vault = last.pre.vault
    /\ positions = last.pre.positions

\* C18 as stated: open_position is rejected, with vault and position records
\* unchanged, whenever shares = 0, invested_amount = 0, entry_price = 0 or
\* available_balance < invested_amount; with none of these, on an active
\* vault below the position limit, it succeeds.
C18_OpenPositionValidation ==
    IsOpenPosition =>
        /\ BadOpenArgs(last) => OpenRejectedUnchanged
        /\ (~BadOpenArgs(last) /\ ActiveBelowLimit(last.pre.vault)) => last.ok

\* C18 (amended): open_position is rejected, with vault and position records
\* unchanged, whenever shares = 0, invested_amount = 0, entry_price = 0 or
\* available_balance < invested_amount; with none of these, on an active
\* vault below the position limit that has no position account for
\* market_id yet (open or closed), it succeeds.
C18_OpenPositionValidationFreshMarket ==
    IsOpenPosition =>
        /\ BadOpenArgs(last) => OpenRejectedUnchanged
        /\ (/\ ~BadOpenArgs(last)
            /\ ActiveBelowLimit(last.pre.vault)
            /\ last.args.market_id \notin DOMAIN last.pre.positions) => last.ok
        /\ last.args.market_id \in DOMAIN last.pre.positions =>
              OpenRejectedUnchanged

\* a funded vault is asked to open a position at entry price 0
C18_Witness ==
    /\ IsOpenPosition
    /\ IsZero(last.args.entry_price)
    /\ ~IsZero(last.args.shares)
    /\ Ge(last.pre.vault.available_balance, last.args.invested_amount)
    /\ last.args.market_id \notin DOMAIN last.pre.positions
    /\ last.error = "InvalidPrice"

Closed == IsClosePosition /\ last.ok

\* C20 as stated: a successful close_position sets the position's status to
\* Closed, stores exit_price and realized_pnl on it, increases
\* available_balance by exactly floor(shares * exit_price / 1_000_000), and
\* decreases active_positions by exactly 1.
C20_ClosePositionEffects ==
    Closed =>
        LET before == last.pre.positions[last.market_id]
            position == positions[last.market_id]
        IN  /\ before.status = "Open"
            /\ position.status = "Closed"
            /\ position.exit_price = last.exit_price
            /\ position.realized_pnl = last.realized_pnl
            /\ vault.available_balance
                  = Add(last.pre.vault.available_balance,
                        Div(Mul(before.shares, last.exit_price), PRICE_SCALE))
            /\ Add(vault.active_positions, <<1>>) = last.pre.vault.active_positions

\* the exact signed value floor(shares * price / 1_000_000) - invested_amount
exact_pnl(position, price) ==
    signed_sub(i64(FALSE, Div(Mul(position.shares, price), PRICE_SCALE)),
               i64(FALSE, position.invested_amount))

\* C21 as stated: for every Open position and every exit_price > 0,
\* close_position returns and stores realized_pnl equal to the signed value
\* floor(shares * exit_price / 1_000_000) - invested_amount, with no
\* wrap-around or truncation changing its sign or magnitude.
C21_RealizedPnlExact ==
    Closed =>
        LET before == last.pre.positions[last.market_id]
        IN  /\ last.realized_pnl = exact_pnl(before, last.exit_price)
            /\ positions[last.market_id].realized_pnl
                  = exact_pnl(before, last.exit_price)

\* C22: close_position on a position whose status is not Open, or with
\* exit_price = 0, returns an error (PositionAlreadyClosed for a position
\* that is not Open, InvalidPrice for a zero price on an Open one) and leaves
\* the position and the vault unchanged.
C22_ClosePositionRejects ==
    (/\ IsClosePosition
     /\ last.market_id \in DOMAIN last.pre.positions
     /\ \/ last.pre.positions[last.market_id].status # "Open"
        \/ IsZero(last.exit_price)) =>
        /\ ~last.ok
        /\ last.error = IF last.pre.positions[last.market_id].status # "Open"
                        THEN "PositionAlreadyClosed" ELSE "InvalidPrice"
        /\ positions = last.pre.positions
        /\ vault = last.pre.vault

\* a position closed earlier at a profit is closed again at a valid price
C22_Witness ==
    /\ IsClosePosition
    /\ last.market_id \in DOMAIN last.pre.positions
    /\ last.pre.positions[last.market_id].status = "Closed"
    /\ ~last.pre.positions[last.market_id].realized_pnl.neg
    /\ ~IsZero(last.exit_price)
    /\ last.error = "PositionAlreadyClosed"

\* one step leaves every position that is not Open as it is, and credits the
\* vault through close_position only for a position that was Open
ClosedStaysClosed ==
    /\ \A m \in DOMAIN positions :
          positions[m].status # "Open" =>
              /\ m \in DOMAIN positions'
              /\ positions'[m] = positions[m]
    /\ (/\ last'.op = "close_position"
        /\ last' # last
        /\ vault'.available_balance # vault.available_balance) =>
          /\ last'.market_id \in DOMAIN positions
          /\ positions[last'.market_id].status = "Open"
          /\ positions'[last'.market_id].status = "Closed"

\* C23: position status follows Open -> Closed only once: after a position
\* becomes Closed no sequence of operations changes its status, shares,
\* exit_price or realized_pnl again, so each position credits the vault at
\* most once.
C23_ClosedIsFinal == [][ClosedStaysClosed]_vars

\* a position closed at a gain is still Closed after an open_position call
\* naming its market, made with funds to pay for it, was refused
C23_Witness ==
    /\ IsOpenPosition
    /\ last.args.market_id \in DOMAIN positions
    /\ positions[last.args.market_id].status = "Closed"
    /\ ~IsZero(positions[last.args.market_id].exit_price)
    /\ ~BadOpenArgs(last)
    /\ ~last.ok

IsPnlQuery == last.op = "get_position_pnl"

\* C24 as stated: the PnL query never mutates position or vault state; on an
\* Open position it returns floor(shares * price / 1_000_000) -
\* invested_amount, and on a Closed position the stored realized_pnl whatever
\* the price; both for the get_position_pnl instruction and for
\* Position::calculate_unrealized_pnl.
C24_PnlQuery ==
    (IsPnlQuery /\ last.ok) =>
        LET position == positions[last.market_id]
            expected == IF position.status = "Open"
                        THEN exact_pnl(position, last.current_price)
                        ELSE position.realized_pnl
        IN  /\ Accounts = last.pre
            /\ last.pnl = expected
            /\ calculate_unrealized_pnl(position, last.current_price) = expected

\* the part of C24 about the instruction alone, for positions whose value
\* and cost are below 2^63
PnlQueryInstruction ==
    (IsPnlQuery /\ last.ok) =>
        LET position == positions[last.market_id]
        IN  /\ Accounts = last.pre
            /\ position.status # "Open" => last.pnl = position.realized_pnl
            /\ (/\ position.status = "Open"
                /\ Le(Div(Mul(position.shares, last.current_price), PRICE_SCALE),
                      I64_MAX)
                /\ Le(position.invested_amount, I64_MAX)) =>
                  last.pnl = exact_pnl(position, last.current_price)

IsSignal == last.op = "generate_trade_signal"
IsEvaluation == (IsSignal \/ IsIxTrade) /\ last.ok
TooVolatile(l) == l.market_input.volatility > l.pre.config.volatility_cap

\* C25: the inference returns Hold whenever input.volatility >
\* volatility_cap, for every price and trend; execute_trade never debits the
\* vault on such an input.
C25_VolatilityGate ==
    (IsEvaluation /\ TooVolatile(last)) =>
        /\ last.signal = "Hold"
        /\ config.last_signal = 3
        /\ vault = last.pre.vault

\* a funded vault that would have bought strongly is asked to trade on an
\* observation above the volatility cap
C25_Witness ==
    /\ IsIxTrade
    /\ last.ok
    /\ TooVolatile(last)
    /\ last.market_input.price <= last.pre.config.price_threshold_low
    /\ last.market_input.trend > last.pre.config.trend_threshold
    /\ Ge(calculate_position_size(last.pre.vault, TRUE), MIN_TRADE_AMOUNT)

Observation(price, trend, volatility) ==
    [price |-> price, trend |-> trend, volatility |-> volatility]

\* the signal follows the rule of the thresholds: the class from the price,
\* the strong variant iff |trend| > trend_threshold and the trend's sign
\* agrees with the direction (rising for a buy, falling for a sell)
FollowsRule(l) ==
    LET params == config_params(l.pre.config)
        input == l.market_input
        far == abs(input.trend) > params.trend_threshold
    IN  /\ is_buy(l.signal) <=> input.price <= params.price_threshold_low
        /\ is_sell(l.signal) <=> input.price >= params.price_threshold_high
        /\ l.signal = "Hold" <=>
              /\ input.price > params.price_threshold_low
              /\ input.price < params.price_threshold_high
        /\ is_buy(l.signal) => (is_strong(l.signal) <=> (far /\ input.trend > 0))
        /\ is_sell(l.signal) => (is_strong(l.signal) <=> (far /\ input.trend < 0))

Calm(l) == IsSignal /\ l.ok /\ ~TooVolatile(l)

Example(l, input, signal) ==
    (/\ config_params(l.pre.config) = StrategyParams_default
     /\ l.market_input = input) => l.signal = signal

IsInitializeStrategy == last.op = "initialize_strategy"
IsSetStrategyParams == last.op = "set_strategy_params"

\* C27: in every state reached by initialize_strategy and
\* set_strategy_params calls the stored StrategyConfig satisfies
\* price_threshold_low < price_threshold_high; a call whose parameters
\* violate this is rejected with InvalidStrategyParams and leaves the
\* config unchanged.
C27_ThresholdsOrdered ==
    /\ "strategy_config" \in initialized =>
          config.price_threshold_low < config.price_threshold_high
    /\ (/\ IsSetStrategyParams
        /\ last.params.price_threshold_low >= last.params.price_threshold_high) =>
          /\ ~last.ok
          /\ last.error = "InvalidStrategyParams"
          /\ config = last.pre.config
    /\ (/\ IsInitializeStrategy
        /\ "strategy_config" \notin last.created
        /\ last.params.some
        /\ last.params.value.price_threshold_low
              >= last.params.value.price_threshold_high) =>
          /\ ~last.ok
          /\ last.error = "InvalidStrategyParams"
          /\ "strategy_config" \notin initialized
          /\ config = last.pre.config

\* a configuration whose thresholds were already changed once refuses a set
\* with equal price thresholds
C27_Witness ==
    /\ IsSetStrategyParams
    /\ last.params.price_threshold_low = last.params.price_threshold_high
    /\ config_params(config) # StrategyParams_default
    /\ last.error = "InvalidStrategyParams"
    /\ config.price_threshold_low < config.price_threshold_high

IsFundAgent == last.op = "fund_agent"
IsCompleteWithdrawal == last.op = "complete_withdrawal"

\* the call is unchanged by the ledger: no account differs from before it
NothingChanged == Accounts = last.pre

\* a fund_agent call that reaches the updates of the vault totals
FundReachesUpdates(l) ==
    /\ l.proof.commitment \notin DOMAIN l.pre.deposits
    /\ l.pre.vault.is_active
    /\ verify_deposit_proof(l.proof) = "none"

FundWouldOverflow(l) ==
    \/ Gt(Add(l.pre.vault.total_deposited, l.proof.amount), U64_MAX)
    \/ Gt(Add(l.pre.vault.available_balance, l.proof.amount), U64_MAX)
    \/ Gt(Add(l.pre.vault.total_deposits_count, <<1>>), U64_MAX)

\* fund_agent: MathOverflow and no change when a total would overflow, else
\* exactly the verified amount on both balances and 1 on the counter
FundAgentChecked ==
    (IsFundAgent /\ FundReachesUpdates(last)) =>
        IF FundWouldOverflow(last)
        THEN ~last.ok /\ last.error = "MathOverflow" /\ NothingChanged
        ELSE /\ last.ok
             /\ vault.total_deposited
                   = Add(last.pre.vault.total_deposited, last.proof.amount)
             /\ vault.available_balance
                   = Add(last.pre.vault.available_balance, last.proof.amount)
             /\ vault.total_deposits_count
                   = Add(last.pre.vault.total_deposits_count, <<1>>)

\* a complete_withdrawal call on a Pending or Approved request, by its
\* recipient, with an attestation that passes
WithdrawalVerified(l) ==
    /\ l.commitment \in DOMAIN l.pre.withdrawals
    /\ l.recipient = l.pre.withdrawals[l.commitment].recipient
    /\ l.pre.withdrawals[l.commitment].status \in {"Pending", "Approved"}
    /\ verify_compliance(l.attestation, l.recipient, l.slot).passed

DepositShort(l) ==
    Lt(l.pre.deposits[l.commitment].amount, l.pre.withdrawals[l.commitment].amount)
VaultShort(l) ==
    Lt(l.pre.vault.available_balance, l.pre.withdrawals[l.commitment].amount)
LamportsOverflow(l) ==
    \/ Lt(l.pre.lamports["vault"], l.pre.withdrawals[l.commitment].amount)
    \/ Gt(Add(l.pre.lamports[l.recipient],
              l.pre.withdrawals[l.commitment].amount), U64_MAX)
    \/ Gt(Add(l.pre.vault.total_withdrawals_count, <<1>>), U64_MAX)

\* C28 as stated: fund_agent and complete_withdrawal update the balances
\* and counters with checked arithmetic: if any update would overflow or
\* underflow 64 bits the operation aborts with MathOverflow and no balance
\* is changed; otherwise a successful fund_agent adds exactly the verified
\* amount to total_deposited and available_balance and 1 to
\* total_deposits_count.
C28_CheckedLedgerMathOverflow ==
    /\ FundAgentChecked
    /\ (/\ IsCompleteWithdrawal
        /\ WithdrawalVerified(last)
        /\ DepositShort(last) \/ VaultShort(last) \/ LamportsOverflow(last)) =>
          ~last.ok /\ last.error = "MathOverflow" /\ NothingChanged

\* C28, corrected: as stated for fund_agent; a complete_withdrawal whose
\* debit would underflow aborts without changing a balance, with
\* InsufficientBalance (deposit) or InsufficientVaultBalance (vault), which
\* are tested before the checked subtractions, and with MathOverflow only
\* for the lamports and the counter.
C28_CheckedLedger ==
    /\ FundAgentChecked
    /\ (/\ IsCompleteWithdrawal
        /\ WithdrawalVerified(last)
        /\ DepositShort(last) \/ VaultShort(last) \/ LamportsOverflow(last)) =>
          /\ ~last.ok
          /\ last.error = IF DepositShort(last) THEN "InsufficientBalance"
                          ELSE IF VaultShort(last) THEN "InsufficientVaultBalance"
                          ELSE "MathOverflow"
          /\ NothingChanged

\* a second deposit is made into a vault whose available balance is
\* u64::MAX while its total deposited is not
C28_Witness ==
    /\ IsFundAgent
    /\ FundReachesUpdates(last)
    /\ last.pre.vault.available_balance = U64_MAX
    /\ Lt(Add(last.pre.vault.total_deposited, last.proof.amount), U64_MAX)
    /\ last.error = "MathOverflow"
    /\ DOMAIN deposits = {1}

Completed == IsCompleteWithdrawal /\ last.ok

\* C29 as stated: a completed withdrawal of amount a reduces both
\* vault.total_deposited and vault.available_balance by a.
C29_WithdrawalReducesBoth ==
    Completed =>
        LET a == last.pre.withdrawals[last.commitment].amount
        IN  /\ Add(vault.total_deposited, a) = last.pre.vault.total_deposited
            /\ Add(vault.available_balance, a) = last.pre.vault.available_balance

\* what a completed withdrawal does to the vault: available_balance is
\* reduced by the amount, the withdrawal counter grows by one, and
\* total_deposited stays as it was
CompletedWithdrawalVault ==
    Completed =>
        LET a == last.pre.withdrawals[last.commitment].amount
        IN  /\ ~IsZero(a)
            /\ Add(vault.available_balance, a) = last.pre.vault.available_balance
            /\ vault.total_deposited = last.pre.vault.total_deposited
            /\ vault.total_withdrawals_count
                  = Add(last.pre.vault.total_withdrawals_count, <<1>>)

\* C30: complete_withdrawal moves funds (debits vault.available_balance and
\* user_deposit.amount, pays the lamports, reaches status Completed) only if
\* verify_compliance passed for the request's recipient at the current
\* slot, and only if user_deposit.amount >= amount and
\* vault.available_balance >= amount; every other call changes nothing.
C30_ComplianceGatesWithdrawal ==
    (IsCompleteWithdrawal /\ ~NothingChanged) =>
        /\ last.ok
        /\ last.commitment \in DOMAIN last.pre.withdrawals
        /\ LET request == last.pre.withdrawals[last.commitment]
           IN  /\ verify_compliance(last.attestation, request.recipient,
                                    last.slot).passed
               /\ Ge(last.pre.deposits[last.commitment].amount, request.amount)
               /\ Ge(last.pre.vault.available_balance, request.amount)
               /\ withdrawals[last.commitment].status = "Completed"
               /\ lamports[request.recipient]
                     = Add(last.pre.lamports[request.recipient], request.amount)

\* a partial withdrawal is paid on an attestation at the limits: risk score
\* 30, 50 slots old
C30_Witness ==
    /\ Completed
    /\ last.attestation.risk_score = MAX_RISK_SCORE
    /\ Sub(last.slot, last.attestation.attestation_slot) = MAX_ATTESTATION_AGE_SLOTS
    /\ deposits[last.commitment].is_active
    /\ Lt(vault.available_balance, last.pre.vault.available_balance)
    /\ ~IsZero(lamports["recipient"])

\* ------------------------------------------------------------------------
\* SpecCompliance: verify_compliance on its own
\* ------------------------------------------------------------------------

\* risk scores (u8): the least, the limit and the one above it, the score
\* of RangeAttestation::high_risk, and the greatest
RISK_SCORES == {0, MAX_RISK_SCORE, MAX_RISK_SCORE + 1, 85, 255}

\* attestation slots seen from CURRENT_SLOTS: more than 50 slots old, 51 and
\* 50 slots old, recent, of the current slot, and ahead of it
ATTESTATION_SLOTS == {<<40>>, <<49>>, <<50>>, <<51>>, <<90>>, <<100>>, <<150>>}

CURRENT_SLOTS == {<<100>>, <<101>>}

COMPLIANCE_ATTESTATIONS ==
    {RangeAttestation_new(a, r, s, m) :
        a \in RECIPIENTS, r \in RISK_SCORES, s \in ATTESTATION_SLOTS,
        m \in BOOLEAN}

VerifyCompliance(attestation, expected_address, current_slot) ==
    /\ last' = [op |-> "verify_compliance", attestation |-> attestation,
                expected_address |-> expected_address,
                current_slot |-> current_slot,
                result |-> verify_compliance(attestation, expected_address,
                                             current_slot)]
    /\ UNCHANGED <<market, traded, calls, accounts>>

NextCompliance ==
    \E a \in COMPLIANCE_ATTESTATIONS, e \in RECIPIENTS, s \in CURRENT_SLOTS :
        VerifyCompliance(a, e, s)

SpecCompliance == InitWithdrawal /\ [][NextCompliance]_vars

IsVerifyCompliance == last.op = "verify_compliance"

\* the four conditions of the attestation, on the integers
WrongAddress(l) == l.attestation.address # l.expected_address
Stale(l) ==
    /\ Gt(l.current_slot, l.attestation.attestation_slot)
    /\ Gt(Sub(l.current_slot, l.attestation.attestation_slot), <<50>>)
Malicious(l) == l.attestation.has_malicious_connections
HighRisk(l) == l.attestation.risk_score > 30

\* the first failing condition in the order address, age, malicious
\* connections, risk
FirstFailure(l) ==
    IF WrongAddress(l) THEN "AddressMismatch"
    ELSE IF Stale(l) THEN "StaleAttestation"
    ELSE IF Malicious(l) THEN "MaliciousConnections"
    ELSE IF HighRisk(l) THEN "HighRiskAddress"
    ELSE "none"

\* C31: verify_compliance passes iff the attestation address equals the
\* expected address, current_slot - attestation_slot <= 50,
\* has_malicious_connections is false and risk_score <= 30; when several
\* conditions fail, the reported error is the first of AddressMismatch,
\* StaleAttestation, MaliciousConnections, HighRiskAddress that applies.
C31_CompliancePrecedence ==
    IsVerifyCompliance =>
        /\ last.result.passed
              <=> ~(WrongAddress(last) \/ Stale(last) \/ Malicious(last)
                    \/ HighRisk(last))
        /\ last.result.error = FirstFailure(last)
        /\ last.result.risk_score = last.attestation.risk_score

\* RangeAttestation::high_risk, 51 slots old: stale, malicious and risky at
\* once, reported as StaleAttestation
C31_Witness ==
    /\ IsVerifyCompliance
    /\ ~WrongAddress(last)
    /\ last.current_slot = <<101>>
    /\ last.attestation.attestation_slot = <<50>>
    /\ Malicious(last)
    /\ last.attestation.risk_score = 85
    /\ ~last.result.passed
    /\ last.result.error = "StaleAttestation"

\* |a - b| of two naturals
AbsDiff(a, b) == IF Ge(a, b) THEN Sub(a, b) ELSE Sub(b, a)

\* the price of the bought side before the call
PreTradePrice == get_price(last.pre, last.params.side)

\* C32: a market order never executes successfully at an execution price
\* that deviates from the bought side's pre-trade price by more than the
\* order's max_slippage_bps; an order exceeding its slippage tolerance fails
\* without changing the market.
C32_SlippageRespected ==
    (Succeeded /\ last.params.order_type = "Market") =>
        Le(Mul(AbsDiff(last.result.execution_price, PreTradePrice),
               BPS_DENOMINATOR),
           Mul(PreTradePrice, last.params.max_slippage_bps))

IsVerifyWithdrawalCompliance == last.op = "verify_withdrawal_compliance"

\* the statuses that end a request
FINAL_STATUSES == {"Completed", "Rejected", "Cancelled"}

\* a complete_withdrawal or verify_withdrawal_compliance call on a request
\* that had ended, made with the accounts the request names
OnEndedRequest ==
    /\ IsCompleteWithdrawal \/ IsVerifyWithdrawalCompliance
    /\ last.commitment \in DOMAIN last.pre.withdrawals
    /\ last.pre.withdrawals[last.commitment].status \in FINAL_STATUSES
    /\ IsCompleteWithdrawal =>
          last.recipient = last.pre.withdrawals[last.commitment].recipient

\* what the requests have paid: the amount of each Completed one
RECURSIVE PaidOut(_, _)
PaidOut(ws, cs) ==
    IF cs = {} THEN << >>
    ELSE LET c == CHOOSE x \in cs : TRUE
         IN  Add(IF ws[c].status = "Completed" THEN ws[c].amount ELSE << >>,
                 PaidOut(ws, cs \ {c}))

\* C33: funds are paid out at most once per withdrawal request: once a
\* request is Completed (or Rejected or Cancelled), every later
\* complete_withdrawal or verify_withdrawal_compliance call on it is
\* rejected with InvalidWithdrawalStatus and changes neither the vault, the
\* deposit nor the request; the recipients hold the amount of each
\* Completed request once.
C33_PaidOutOnce ==
    /\ OnEndedRequest =>
          /\ ~last.ok
          /\ last.error = "InvalidWithdrawalStatus"
          /\ NothingChanged
    /\ Add(lamports["recipient"], lamports["other"])
          = PaidOut(withdrawals, DOMAIN withdrawals)

\* a second complete_withdrawal, with a passing attestation, on a request
\* that paid 1_000_000 of a deposit of 1_000_000_000
C33_Witness ==
    /\ IsCompleteWithdrawal
    /\ OnEndedRequest
    /\ verify_compliance(last.attestation, last.recipient, last.slot).passed
    /\ withdrawals[last.commitment].amount = MIN_DEPOSIT_AMOUNT
    /\ deposits[last.commitment].amount = <<0, 0, 999>>
    /\ lamports["recipient"] = MIN_DEPOSIT_AMOUNT
    /\ last.error = "InvalidWithdrawalStatus"

\* a complete_withdrawal or verify_withdrawal_compliance call whose
\* compliance check failed
ComplianceFailed ==
    /\ IsCompleteWithdrawal \/ IsVerifyWithdrawalCompliance
    /\ last.error = "ComplianceCheckFailed"

\* C34: once a compliance check fails for a withdrawal request (in
\* complete_withdrawal or verify_withdrawal_compliance), the request's
\* recorded status is Rejected.
C34_FailedCheckRecordsRejected ==
    ComplianceFailed => withdrawals[last.commitment].status = "Rejected"

\* what the program does instead: the failing transaction leaves the request
\* and every other account as they were, and no request is ever Rejected
FailedCheckLeavesRequest ==
    /\ ComplianceFailed => NothingChanged
    /\ \A c \in DOMAIN withdrawals : withdrawals[c].status # "Rejected"

\* ------------------------------------------------------------------------
\* SpecTradeCycle: execute_trade, then open_position recording the trade
\* ------------------------------------------------------------------------

\* the number of signals evaluated in the trade cycles
MaxCycleSignals == 3

\* open_position recording the trade execute_trade has just made, on a new
\* market: its side, shares_received, execution_price and amount_traded
RecordTrade ==
    /\ IsIxTrade /\ last.ok /\ last.result.success
    /\ \E a \in {OpenArgs(NextMarket,
                          IF is_buy(last.signal) THEN "Yes" ELSE "No",
                          last.result.shares_received,
                          last.result.execution_price,
                          last.result.amount_traded)} :
       \E out \in {open_position(vault, positions, a.market_id, a.side,
                                 a.shares, a.entry_price, a.invested_amount,
                                 Clock)} :
           /\ last' = [op |-> "open_position", args |-> a, pre |-> Accounts,
                       slot |-> slot, ok |-> out.ok,
                       error |-> IF out.ok THEN "none" ELSE out.error,
                       trade |-> last]
           /\ vault' = IF out.ok THEN out.value.vault ELSE vault
           /\ positions' = IF out.ok THEN out.value.positions ELSE positions
           /\ Landed(out)
           /\ UNCHANGED <<market, traded, calls, config, deposits, initialized,
                          withdrawals, lamports>>

NextTradeCycle ==
    \/ \E proof \in WITHDRAWAL_PROOFS : FundAgent(proof)
    \/ /\ Lt(config.total_signals, Big(MaxCycleSignals))
       /\ \E i \in MARKET_INPUTS : ExecuteTradeIx(i)
    \/ RecordTrade

SpecTradeCycle == InitVault /\ [][NextTradeCycle]_vars

\* a trade cycle: a successful execute_trade and the open_position that
\* recorded it
CycleDone == IsOpenPosition /\ last.ok /\ "trade" \in DOMAIN last

\* C35: running a successful trade cycle with execute_trade and then
\* recording that trade with open_position (invested_amount =
\* amount_traded) debits vault.available_balance by amount_traded once in
\* total and adds amount_traded to vault.total_volume once in total.
C35_CycleDebitsOnce ==
    CycleDone =>
        /\ Add(vault.available_balance, last.trade.result.amount_traded)
              = last.trade.pre.vault.available_balance
        /\ vault.total_volume
              = Add(last.trade.pre.vault.total_volume,
                    last.trade.result.amount_traded)

\* what the program does instead: the cycle debits the balance twice and
\* counts the volume twice
CycleDebitsTwice ==
    CycleDone =>
        \A a \in {last.trade.result.amount_traded} :
            /\ last.args.invested_amount = a
            /\ Add(Add(vault.available_balance, a), a)
                  = last.trade.pre.vault.available_balance
            /\ vault.total_volume
                  = Add(Add(last.trade.pre.vault.total_volume, a), a)

\* ------------------------------------------------------------------------
\* SpecDelegation: delegate_to_tee and undelegate_from_tee among deposits
\* and position calls
\* ------------------------------------------------------------------------

can_delegate(v) == v.is_active /\ ~v.is_delegated
can_undelegate(v) == v.is_active /\ v.is_delegated

\* delegate_to_tee without the checks of the delegation flag
delegate_to_tee_repeatable(v) ==
    IF ~v.is_active THEN Err("VaultInactive")
    ELSE Ok([vault |-> [v EXCEPT !.is_delegated = TRUE]])

\* the delegate_to_tee instruction: the DelegateToTee constraints, then the
\* handler
delegate_to_tee(v) ==
    IF ~v.is_active THEN Err("VaultInactive")
    ELSE IF v.is_delegated THEN Err("VaultAlreadyDelegated")
    ELSE IF ~can_delegate(v) THEN Err("VaultAlreadyDelegated")
    ELSE Ok([vault |-> [v EXCEPT !.is_delegated = TRUE]])

\* the undelegate_from_tee instruction: the UndelegateFromTee constraint,
\* then the handler
undelegate_from_tee(v) ==
    IF ~v.is_delegated THEN Err("VaultNotDelegated")
    ELSE IF ~can_undelegate(v) THEN Err("VaultNotDelegated")
    ELSE Ok([vault |-> [v EXCEPT !.is_delegated = FALSE]])

\* delegation calls are made up to this slot
MaxDelegationSlot == 6

DelegateToTee ==
    \E out \in {delegate_to_tee(vault)} :
        /\ last' = [op |-> "delegate_to_tee", pre |-> Accounts, slot |-> slot,
                    ok |-> out.ok,
                    error |-> IF out.ok THEN "none" ELSE out.error]
        /\ vault' = IF out.ok THEN out.value.vault ELSE vault
        /\ Landed(out)
        /\ UNCHANGED <<market, traded, calls, config, deposits, positions,
                       initialized, withdrawals, lamports>>

UndelegateFromTee ==
    \E out \in {undelegate_from_tee(vault)} :
        /\ last' = [op |-> "undelegate_from_tee", pre |-> Accounts,
                    slot |-> slot, ok |-> out.ok,
                    error |-> IF out.ok THEN "none" ELSE out.error]
        /\ vault' = IF out.ok THEN out.value.vault ELSE vault
        /\ Landed(out)
        /\ UNCHANGED <<market, traded, calls, config, deposits, positions,
                       initialized, withdrawals, lamports>>

NextDelegation ==
    \/ \E proof \in WITHDRAWAL_PROOFS : FundAgent(proof)
    \/ \E a \in OPEN_CALLS : OpenPosition(a)
    \/ \E c \in CLOSE_CALLS : ClosePosition(c.market_id, c.exit_price)
    \/ Lt(slot, Big(MaxDelegationSlot)) /\ DelegateToTee
    \/ Lt(slot, Big(MaxDelegationSlot)) /\ UndelegateFromTee

SpecDelegation == InitVault /\ [][NextDelegation]_vars

IsDelegate == last.op = "delegate_to_tee"
IsUndelegate == last.op = "undelegate_from_tee"

\* the call changed the delegation flag of the vault to `flag` and nothing
\* else: no balance, no counter, no other account
OnlyFlagSet(flag) ==
    /\ vault = [last.pre.vault EXCEPT !.is_delegated = flag]
    /\ [Accounts EXCEPT !.vault = last.pre.vault] = last.pre

\* C36: delegate_to_tee succeeds only on an active, non-delegated vault and
\* sets is_delegated, undelegate_from_tee succeeds only on an active,
\* delegated vault and clears it; a repeated delegate or a repeated
\* undelegate is rejected and changes nothing, and neither operation
\* changes any balance or counter of the vault.  An inactive vault is
\* refused by both.
C36_DelegationAlternates ==
    /\ IsDelegate =>
          /\ last.ok <=> (last.pre.vault.is_active /\ ~last.pre.vault.is_delegated)
          /\ IF last.ok THEN OnlyFlagSet(TRUE) ELSE NothingChanged
    /\ IsUndelegate =>
          /\ last.ok <=> (last.pre.vault.is_active /\ last.pre.vault.is_delegated)
          /\ IF last.ok THEN OnlyFlagSet(FALSE) ELSE NothingChanged
    /\ \A d \in BOOLEAN :
          \A inactive \in {[vault EXCEPT !.is_active = FALSE,
                                         !.is_delegated = d]} :
              /\ ~delegate_to_tee(inactive).ok
              /\ ~undelegate_from_tee(inactive).ok

\* a second delegate_to_tee in a row, refused, on a funded vault that holds
\* an open position
C36_Witness ==
    /\ IsDelegate
    /\ ~last.ok
    /\ last.error = "VaultAlreadyDelegated"
    /\ vault.is_delegated
    /\ ~IsZero(vault.available_balance)
    /\ vault.active_positions = <<1>>

\* yes_reserve * no_reserve
product(m) == Mul(m.yes_reserve, m.no_reserve)

\* the reserve a trade on `side` pays into
paid_in_reserve(m, side) == IF side = "Yes" THEN m.no_reserve ELSE m.yes_reserve

\* C37: a successful execute_trade on the MockMarket never increases the
\* product yes_reserve * no_reserve: the post-trade product is at most the
\* pre-trade k and greater than k minus the new paid-in reserve, so over any
\* sequence of trades the product is non-increasing (it never exceeds the
\* product of the two equal halves the market was created with).
C37_ProductNeverGrows ==
    /\ Succeeded =>
          \A k \in {product(last.pre)}, after \in {product(market)} :
              /\ Le(after, k)
              /\ Gt(Add(after, paid_in_reserve(market, last.params.side)), k)
    /\ \A half \in {Div(market.sol_liquidity, <<2>>)} :
          Le(product(market), Mul(half, half))

\* a second successful trade on the default market that loses a remainder
C37_Witness ==
    /\ Succeeded
    /\ last.pre.sol_liquidity = MockMarket_default.sol_liquidity
    /\ ~IsZero(last.pre.total_volume)
    /\ Lt(product(market), product(last.pre))
    /\ BothPositive(market)

\* the number of positions of the vault whose status is Open
OpenCount == Cardinality({m \in DOMAIN positions : positions[m].status = "Open"})

\* C38: in every state reachable by any sequence of open_position and
\* close_position calls on one vault, vault.active_positions equals the
\* number of that vault's positions whose status is Open.
C38_ActivePositionsCountsOpen ==
    vault.active_positions = Big(OpenCount)

\* a close_position that left 49 positions open and two closed
C38_Witness ==
    /\ Closed
    /\ OpenCount = 49
    /\ Cardinality(DOMAIN positions) = 51
    /\ vault.active_positions = <<49>>
    /\ last.pre.vault.active_positions = <<50>>

\* the amount a successful call debited: `debit` was at most the balance
\* found, and the balance left is the balance found minus `debit`
DebitedExactly(debit) ==
    /\ Le(debit, last.pre.vault.available_balance)
    /\ vault.available_balance = Sub(last.pre.vault.available_balance, debit)

\* C39: the saturating debits of vault.available_balance in execute_trade
\* and open_position never clamp: in every reachable call the debited
\* amount (amount_traded, respectively invested_amount) is at most the
\* current available_balance, so the balance after the call is exactly the
\* balance before minus the debit.
C39_DebitsNeverClamp ==
    /\ TradeSucceeded => DebitedExactly(last.result.amount_traded)
    /\ Opened => DebitedExactly(last.args.invested_amount)

\* an open_position that invests the whole balance, u64::MAX - 40_000_000,
\* of a vault filled by a close_position credit
C39_Witness ==
    /\ Opened
    /\ last.args.invested_amount = NEARLY_ALL
    /\ Ge(last.pre.vault.available_balance, NEARLY_ALL)
    /\ Lt(vault.available_balance, <<0, 0, 41>>)

\* ------------------------------------------------------------------------
\* SpecLedger: deposits and withdrawals only, no trading or position call
\* ------------------------------------------------------------------------

NextLedger ==
    \/ \E proof \in WITHDRAWAL_PROOFS \cup PROOFS : FundAgent(proof)
    \/ \E c \in {1, 2}, a \in WITHDRAWAL_AMOUNTS :
          RequestWithdrawal(c, a, "recipient")
    \/ \E c \in {1, 2}, a \in ATTESTATIONS :
          CompleteWithdrawal(c, "recipient", a)
    \/ \E c \in {1, 2}, a \in ATTESTATIONS : VerifyWithdrawalCompliance(c, a)

SpecLedger == InitWithdrawal /\ [][NextLedger]_vars

\* the sum of amount over the deposits cs of ds
RECURSIVE DepositSum(_, _)
DepositSum(ds, cs) ==
    IF cs = {} THEN << >>
    ELSE LET c == CHOOSE x \in cs : TRUE
         IN  Add(ds[c].amount, DepositSum(ds, cs \ {c}))

\* C40: in any sequence consisting only of fund_agent and
\* complete_withdrawal operations on one vault (no trading or position
\* operations), vault.available_balance always equals the sum of amount
\* over all of that vault's user deposits, and a deposit is inactive exactly
\* when a withdrawal has brought its amount to 0.
C40_BalanceIsSumOfDeposits ==
    /\ vault.available_balance = DepositSum(deposits, DOMAIN deposits)
    /\ \A c \in DOMAIN deposits :
          /\ deposits[c].is_active <=> ~IsZero(deposits[c].amount)
          /\ ~deposits[c].is_active =>
                /\ c \in DOMAIN withdrawals
                /\ withdrawals[c].status = "Completed"

\* two deposits, the first drawn down by 1_000_000 and still active, the
\* second withdrawn in full and inactive
C40_Witness ==
    /\ Completed
    /\ DOMAIN deposits = {1, 2}
    /\ deposits[1].amount = <<0, 0, 999>> /\ deposits[1].is_active
    /\ IsZero(deposits[2].amount) /\ ~deposits[2].is_active
    /\ vault.available_balance = <<0, 0, 999>>

====
